---- MODULE Spec2Model ----
(***************************************************************************)
(* Model of the personality scoring engine (lib/score.ts in its two        *)
(* variants: the 34-item facet schema and the 20-item simple schema).      *)
(*                                                                         *)
(* Numbers.  Every JavaScript number that the engine handles is either an  *)
(* item rating or a value printed by toFixed(2); both are decimal numbers  *)
(* with at most two fractional digits.  The model names such a number by   *)
(* its count of hundredths (4.33 is 433); the number itself is the IEEE    *)
(* double nearest to it.  The arithmetic inside avg (+, /, toFixed) is     *)
(* carried out on the doubles, bit for bit, in fixed point.                *)
(***************************************************************************)
EXTENDS Integers, Sequences, FiniteSets, TLC

(***************************************************************************)
(* IEEE-754 binary64 arithmetic on values of magnitude below 4096.         *)
(* A double is [neg, mag]; the magnitude <<i, f1, f2, f3>> stands for      *)
(* i + f1/B + f2/B^2 + f3/B^3 with B = 2^20 (60 fractional bits).  Every   *)
(* double of magnitude in [2^-7, 2^12) is a multiple of 2^-59, so it is    *)
(* represented exactly, and so are the exact sums and differences of two   *)
(* such doubles.                                                           *)
(***************************************************************************)
LimbBase == 2^20

\* Two fractional decimal digits: the argument of toFixed(2).
Scale == 100

Zero4 == <<0, 0, 0, 0>>

RECURSIVE Log2(_)
Log2(n) == IF n <= 1 THEN 0 ELSE 1 + Log2(n \div 2)

\* Log2 of the integer parts, tabulated.
Log2Of == [n \in 1..4095 |-> Log2(n)]

\* Exponent of the leading bit of a non-zero magnitude.
Exponent(x) ==
    IF x[1] > 0 THEN Log2Of[x[1]]
    ELSE IF x[2] > 0 THEN Log2(x[2]) - 20
    ELSE IF x[3] > 0 THEN Log2(x[3]) - 40
    ELSE Log2(x[4]) - 60

\* Carry propagation after a limb-wise addition or multiplication.
Norm(x) ==
    LET c3 == x[4] \div LimbBase
        g3 == x[4] % LimbBase
        t2 == x[3] + c3
        c2 == t2 \div LimbBase
        g2 == t2 % LimbBase
        t1 == x[2] + c2
        c1 == t1 \div LimbBase
        g1 == t1 % LimbBase
    IN  <<x[1] + c1, g1, g2, g3>>

\* x < y on magnitudes.
MagLess(x, y) ==
    \/ x[1] < y[1]
    \/ x[1] = y[1] /\ x[2] < y[2]
    \/ x[1] = y[1] /\ x[2] = y[2] /\ x[3] < y[3]
    \/ x[1] = y[1] /\ x[2] = y[2] /\ x[3] = y[3] /\ x[4] < y[4]

\* x - y on magnitudes, for y <= x (borrow propagation).
MagSub(x, y) ==
    LET b3 == IF x[4] < y[4] THEN 1 ELSE 0
        g3 == x[4] - y[4] + b3 * LimbBase
        b2 == IF x[3] - b3 < y[3] THEN 1 ELSE 0
        g2 == x[3] - b3 - y[3] + b2 * LimbBase
        b1 == IF x[2] - b2 < y[2] THEN 1 ELSE 0
        g1 == x[2] - b2 - y[2] + b1 * LimbBase
    IN  <<x[1] - b1 - y[1], g1, g2, g3>>

\* Round an exact magnitude (x plus, when sticky, a positive amount below
\* 2^-60) to the nearest double, ties to even: the 53 leading bits are kept.
RoundDouble(x, sticky) ==
    IF x = Zero4 THEN x
    ELSE
      LET d == 8 + Exponent(x)       \* fractional bits of x that a double drops
      IN  IF d <= 0 THEN x
          ELSE
            LET m    == 2^d
                low  == x[4] % m
                half == m \div 2
                lsb  == IF d < 20 THEN (x[4] \div m) % 2 ELSE x[3] % 2
                up   == \/ low > half
                        \/ low = half /\ (sticky \/ lsb = 1)
            IN  IF low = 0 THEN x
                ELSE Norm(<<x[1], x[2], x[3], x[4] - low + (IF up THEN m ELSE 0)>>)

\* Number("-i.ff"): the double nearest to k/100.
FromHundredths(k) ==
    LET a  == IF k < 0 THEN -k ELSE k
        i  == a \div Scale
        r0 == a % Scale
        f1 == (r0 * LimbBase) \div Scale
        r1 == (r0 * LimbBase) % Scale
        f2 == (r1 * LimbBase) \div Scale
        r2 == (r1 * LimbBase) % Scale
        f3 == (r2 * LimbBase) \div Scale
        r3 == (r2 * LimbBase) % Scale
    IN  [neg |-> k < 0, mag |-> RoundDouble(<<i, f1, f2, f3>>, r3 # 0)]

\* a + b on doubles.
FAdd(x, y) ==
    IF x.mag = Zero4 THEN y
    ELSE IF x.neg = y.neg
    THEN [neg |-> x.neg,
          mag |-> RoundDouble(Norm(<<x.mag[1] + y.mag[1], x.mag[2] + y.mag[2],
                                     x.mag[3] + y.mag[3], x.mag[4] + y.mag[4]>>), FALSE)]
    ELSE IF MagLess(x.mag, y.mag)
         THEN [neg |-> y.neg, mag |-> RoundDouble(MagSub(y.mag, x.mag), FALSE)]
         ELSE [neg |-> x.neg /\ x.mag # y.mag,
               mag |-> RoundDouble(MagSub(x.mag, y.mag), FALSE)]

\* x / n on doubles, n a small positive integer (nums.length).
FDiv(x, n) ==
    LET q0 == x.mag[1] \div n
        r0 == x.mag[1] % n
        q1 == (r0 * LimbBase + x.mag[2]) \div n
        r1 == (r0 * LimbBase + x.mag[2]) % n
        q2 == (r1 * LimbBase + x.mag[3]) \div n
        r2 == (r1 * LimbBase + x.mag[3]) % n
        q3 == (r2 * LimbBase + x.mag[4]) \div n
        r3 == (r2 * LimbBase + x.mag[4]) % n
    IN  [neg |-> x.neg, mag |-> RoundDouble(<<q0, q1, q2, q3>>, r3 # 0)]

\* A mutant of ToFixed2: the digits after the second decimal are cut off.
ToFixed2Truncating(x) ==
    LET y == Norm(<<x.mag[1] * Scale, x.mag[2] * Scale, x.mag[3] * Scale, x.mag[4] * Scale>>)
    IN  IF x.neg THEN -y[1] ELSE y[1]

\* Number(x.toFixed(2)), in hundredths: toFixed takes the integer n with
\* n/100 closest to the exact value of |x|, the larger n on a tie, and puts
\* the sign in front (ECMA-262, Number.prototype.toFixed).
ToFixed2(x) ==
    LET y == Norm(<<x.mag[1] * Scale, x.mag[2] * Scale, x.mag[3] * Scale, x.mag[4] * Scale>>)
        n == y[1] + (IF 2 * y[2] >= LimbBase THEN 1 ELSE 0)
    IN  IF x.neg THEN -n ELSE n

\* How far outside the 1..7 scale a finite rating may lie.
MaxOutside == 5

\* The two-decimal numbers the engine can meet: ratings from 1 - MaxOutside
\* to 7 + MaxOutside, their reversals 8 - v and the averages of those.
Hundredths == ((0 - MaxOutside) * Scale)..((8 + MaxOutside) * Scale)

\* FromHundredths, tabulated.
DoubleOf == [k \in Hundredths |-> FromHundredths(k)]

\* nums.reduce((a,b)=>a+b,0): left fold of + over the doubles, from 0.
RECURSIVE FSum(_, _)
FSum(nums, k) ==
    IF k = 0 THEN [neg |-> FALSE, mag |-> Zero4]
    ELSE FAdd(FSum(nums, k - 1), DoubleOf[nums[k]])

\* avg(nums) = Number((sum / nums.length).toFixed(2)), in hundredths.
avg(nums) == ToFixed2(FDiv(FSum(nums, Len(nums)), Len(nums)))

(***************************************************************************)
(* The questionnaire (prompts.ts) and the values a response set may hold.  *)
(***************************************************************************)
\* QUESTIONS: the 34-item catalog, in declaration order, with its reverse flags.
QUESTIONS ==
    << [id |-> "Q01", reverse |-> FALSE], [id |-> "Q02", reverse |-> FALSE],
       [id |-> "Q03", reverse |-> TRUE],  [id |-> "Q04", reverse |-> FALSE],
       [id |-> "Q05", reverse |-> FALSE], [id |-> "Q06", reverse |-> FALSE],
       [id |-> "Q07", reverse |-> TRUE],  [id |-> "Q08", reverse |-> FALSE],
       [id |-> "Q09", reverse |-> TRUE],  [id |-> "Q10", reverse |-> FALSE],
       [id |-> "Q11", reverse |-> FALSE], [id |-> "Q12", reverse |-> FALSE],
       [id |-> "Q13", reverse |-> FALSE], [id |-> "Q14", reverse |-> FALSE],
       [id |-> "Q15", reverse |-> FALSE], [id |-> "Q16", reverse |-> TRUE],
       [id |-> "Q17", reverse |-> FALSE], [id |-> "Q18", reverse |-> FALSE],
       [id |-> "Q19", reverse |-> FALSE], [id |-> "Q20", reverse |-> FALSE],
       [id |-> "Q21", reverse |-> FALSE], [id |-> "Q22", reverse |-> TRUE],
       [id |-> "Q23", reverse |-> FALSE], [id |-> "Q24", reverse |-> FALSE],
       [id |-> "Q25", reverse |-> TRUE],  [id |-> "Q26", reverse |-> FALSE],
       [id |-> "Q27", reverse |-> FALSE], [id |-> "Q28", reverse |-> FALSE],
       [id |-> "Q29", reverse |-> FALSE], [id |-> "Q30", reverse |-> FALSE],
       [id |-> "Q31", reverse |-> FALSE], [id |-> "Q32", reverse |-> FALSE],
       [id |-> "Q33", reverse |-> FALSE], [id |-> "Q34", reverse |-> TRUE] >>

\* The identifiers of the facet-schema catalog and of the 20-item catalog.
CatalogIds == { QUESTIONS[i].id : i \in 1..Len(QUESTIONS) }

SimpleCatalogIds == { QUESTIONS[i].id : i \in 1..20 }

\* The questions the catalog flags reverse: true.
ReverseFlagged == { QUESTIONS[i].id : i \in { j \in 1..Len(QUESTIONS) : QUESTIONS[j].reverse } }

\* A JavaScript value stored under a key of the response object.  A number
\* carries its value in hundredths; "undefined" is what resp[id] yields for a
\* key that is absent; "string" is a non-number such as "5".
Num(n) == [t |-> "number", n |-> n]

Undefined == [t |-> "undefined", n |-> 0]

NaN == [t |-> "NaN", n |-> 0]

PosInfinity == [t |-> "Infinity", n |-> 0]

NegInfinity == [t |-> "-Infinity", n |-> 0]

Str(n) == [t |-> "string", n |-> n]

\* A mutant of NumberIsFinite: the global isFinite, which coerces its argument.
GlobalIsFinite(x) == x.t \in {"number", "string"}

\* Number.isFinite(x): x is of type Number and is not NaN, +Infinity, -Infinity.
NumberIsFinite(x) == x.t = "number"

(***************************************************************************)
(* computeScores and its helpers.                                          *)
(***************************************************************************)
\* resp[id]: the value stored under the key, undefined when the key is absent.
Lookup(resp, id) == IF id \in DOMAIN resp THEN resp[id] ELSE Undefined

\* A mutant of v: a missing rating counts as 0.
vDefaultZero(resp, id) ==
    IF NumberIsFinite(Lookup(resp, id)) THEN Lookup(resp, id).n ELSE 0

\* const v = (id) => Number.isFinite(resp[id]) ? resp[id] : 4
v(resp, id) ==
    IF NumberIsFinite(Lookup(resp, id)) THEN Lookup(resp, id).n ELSE 4 * Scale

\* A mutant of r: reversal on a 0..7 scale.
rSevenMinus(resp, id) == 7 * Scale - v(resp, id)

\* A mutant of r: the reversal is forgotten.
rRaw(resp, id) == v(resp, id)

\* const r = (id) => 8 - v(id)
r(resp, id) == 8 * Scale - v(resp, id)

\* The ten facets of lib/score.ts (facet schema, 34 items).
\* A mutant of ExtraversionAssertiveness: it reads a key outside the catalog.
ExtraversionAssertivenessExtraKey(resp) ==
    avg(<<v(resp, "Q01"), v(resp, "Q13"), v(resp, "Q35")>>)

ExtraversionAssertiveness(resp) ==
    avg(<<v(resp, "Q01"), v(resp, "Q13"), v(resp, "Q21")>>)

ExtraversionSociability(resp) ==
    avg(<<r(resp, "Q07"), r(resp, "Q22"), r(resp, "Q34")>>)

ConscientiousnessOrderliness(resp) ==
    avg(<<v(resp, "Q06"), v(resp, "Q12"), v(resp, "Q23")>>)

ConscientiousnessIndustriousness(resp) ==
    avg(<<v(resp, "Q02"), v(resp, "Q17"), v(resp, "Q24"), v(resp, "Q31")>>)

EmotionalStabilityCalmness(resp) ==
    avg(<<r(resp, "Q03"), v(resp, "Q08"), v(resp, "Q26")>>)

EmotionalStabilityResilience(resp) ==
    avg(<<v(resp, "Q14"), r(resp, "Q25")>>)

OpennessIntellect(resp) ==
    avg(<<v(resp, "Q04"), v(resp, "Q15"), v(resp, "Q28")>>)

\* A mutant of OpennessAesthetic: Q28 is read instead of Q27.
OpennessAestheticWrongItem(resp) ==
    avg(<<v(resp, "Q28"), r(resp, "Q09")>>)

OpennessAesthetic(resp) ==
    avg(<<v(resp, "Q27"), r(resp, "Q09")>>)

AgreeablenessCompassion(resp) ==
    avg(<<v(resp, "Q05"), v(resp, "Q19"), v(resp, "Q29")>>)

AgreeablenessCandor(resp) ==
    avg(<<v(resp, "Q10"), r(resp, "Q16"), v(resp, "Q30")>>)

\* computeScores of lib/score.ts: major traits from the facets, the three
\* composite traits and the report-only sliders from items.
computeScores(resp) ==
    LET EA == ExtraversionAssertiveness(resp)
        ES == ExtraversionSociability(resp)
        CO == ConscientiousnessOrderliness(resp)
        CI == ConscientiousnessIndustriousness(resp)
        EC == EmotionalStabilityCalmness(resp)
        ER == EmotionalStabilityResilience(resp)
        OI == OpennessIntellect(resp)
        OA == OpennessAesthetic(resp)
        AC == AgreeablenessCompassion(resp)
        AD == AgreeablenessCandor(resp)
    IN  [ Extraversion |-> avg(<<EA, ES>>),
          Conscientiousness |-> avg(<<CO, CI>>),
          EmotionalStability |-> avg(<<EC, ER>>),
          Openness |-> avg(<<OI, OA>>),
          Agreeableness |-> avg(<<AC, AD>>),
          Decisiveness |-> avg(<<v(resp, "Q11"), v(resp, "Q21"), v(resp, "Q30")>>),
          RiskOrientation |-> avg(<<v(resp, "Q18"), v(resp, "Q28")>>),
          SelfInsight |-> avg(<<v(resp, "Q20"), v(resp, "Q31"), v(resp, "Q32")>>),
          facets |->
            ( "Extraversion: Assertiveness" :> EA @@
              "Extraversion: Sociability" :> ES @@
              "Conscientiousness: Orderliness" :> CO @@
              "Conscientiousness: Industriousness" :> CI @@
              "Emotional Stability: Calmness" :> EC @@
              "Emotional Stability: Resilience" :> ER @@
              "Openness: Intellect" :> OI @@
              "Openness: Aesthetic" :> OA @@
              "Agreeableness: Compassion" :> AC @@
              "Agreeableness: Candor" :> AD ),
          reportOnly |->
            [ FocusStyle |-> avg(<<v(resp, "Q31"), v(resp, "Q32")>>),
              FeedbackPreference |-> avg(<<v(resp, "Q30"), v(resp, "Q33")>>),
              SocialRecharge |-> avg(<<v(resp, "Q22"), v(resp, "Q34")>>) ] ]

\* A mutant of SimpleAgreeableness: Q16 enters raw.
SimpleAgreeablenessRaw(resp) ==
    avg(<<v(resp, "Q05"), v(resp, "Q10"), v(resp, "Q16"), v(resp, "Q19")>>)

\* const Agreeableness of the 20-item variant.
SimpleAgreeableness(resp) ==
    avg(<<v(resp, "Q05"), v(resp, "Q10"), r(resp, "Q16"), v(resp, "Q19")>>)

\* A mutant of computeScoresSimple: the report-only traits are left out of
\* the returned object.
computeScoresSimpleFiveTraits(resp) ==
    [ Extraversion |-> avg(<<v(resp, "Q01"), r(resp, "Q07"), v(resp, "Q13")>>),
      Conscientiousness |->
          avg(<<v(resp, "Q02"), v(resp, "Q06"), v(resp, "Q12"), v(resp, "Q17")>>),
      EmotionalStability |-> avg(<<r(resp, "Q03"), v(resp, "Q08"), v(resp, "Q14")>>),
      Openness |-> avg(<<v(resp, "Q04"), r(resp, "Q09"), v(resp, "Q15")>>),
      Agreeableness |-> SimpleAgreeableness(resp) ]

\* computeScores of the 20-item variant (simple schema).
computeScoresSimple(resp) ==
    [ Extraversion |-> avg(<<v(resp, "Q01"), r(resp, "Q07"), v(resp, "Q13")>>),
      Conscientiousness |->
          avg(<<v(resp, "Q02"), v(resp, "Q06"), v(resp, "Q12"), v(resp, "Q17")>>),
      EmotionalStability |-> avg(<<r(resp, "Q03"), v(resp, "Q08"), v(resp, "Q14")>>),
      Openness |-> avg(<<v(resp, "Q04"), r(resp, "Q09"), v(resp, "Q15")>>),
      Agreeableness |-> SimpleAgreeableness(resp),
      Decisiveness |-> v(resp, "Q11"),
      RiskOrientation |-> v(resp, "Q18"),
      SelfInsight |-> v(resp, "Q20") ]

(***************************************************************************)
(* Ranking.                                                                *)
(***************************************************************************)
\* A mutant of Precedes: on equal scores the later entry goes first.
PrecedesOnTie(a, b) == b[2] - a[2] >= 0

\* Whether entry b must be moved in front of entry a, which stands before
\* it: the comparator (a, b) => b[1] - a[1] is positive.  Array.prototype.sort
\* is stable, so entries the comparator calls equal keep their order.
Precedes(a, b) == b[2] - a[2] > 0

\* Insert entry e into the sorted sequence s, behind every entry it must not
\* be moved in front of.
RECURSIVE Insert(_, _)
Insert(s, e) ==
    IF s = <<>> THEN <<e>>
    ELSE IF Precedes(s[Len(s)], e)
         THEN Append(Insert(SubSeq(s, 1, Len(s) - 1), e), s[Len(s)])
         ELSE Append(s, e)

\* [...list].sort((a, b) => b[1] - a[1]): the stable descending sort.
RECURSIVE SortDesc(_, _)
SortDesc(list, k) ==
    IF k = 0 THEN <<>> ELSE Insert(SortDesc(list, k - 1), list[k])

\* A mutant of Slice: one entry too few.
SliceShort(s, n) == SubSeq(s, 1, n - 1)

\* .slice(0, n)
Slice(s, n) == SubSeq(s, 1, IF Len(s) < n THEN Len(s) ELSE n)

\* .map(([k]) => k)
Keys(s) == [i \in 1..Len(s) |-> s[i][1]]

\* topTwoBigFive(s)
topTwoBigFive(s) ==
    LET big5 == << <<"Extraversion", s.Extraversion>>,
                   <<"Conscientiousness", s.Conscientiousness>>,
                   <<"Emotional Stability", s.EmotionalStability>>,
                   <<"Openness", s.Openness>>,
                   <<"Agreeableness", s.Agreeableness>> >>
    IN  Keys(Slice(SortDesc(big5, Len(big5)), 2))

\* topThreeMajor(s)
topThreeMajor(s) ==
    LET all8 == << <<"Extraversion", s.Extraversion>>,
                   <<"Conscientiousness", s.Conscientiousness>>,
                   <<"Emotional Stability", s.EmotionalStability>>,
                   <<"Openness", s.Openness>>,
                   <<"Agreeableness", s.Agreeableness>>,
                   <<"Decisiveness", s.Decisiveness>>,
                   <<"Risk Orientation", s.RiskOrientation>>,
                   <<"Self Insight", s.SelfInsight>> >>
    IN  Keys(Slice(SortDesc(all8, Len(all8)), 3))

(***************************************************************************)
(* The response sets that are scored.                                      *)
(***************************************************************************)
\* How many of the first questions a partly filled-in form has answered.
MaxAnswered == 2

\* The ratings of the Likert scale, 1..7.
Likert == { k * Scale : k \in 1..7 }

\* Finite integer ratings, on the scale and outside it.
FiniteRatings == { k * Scale : k \in (1 - MaxOutside)..(7 + MaxOutside) }

\* Values for which Number.isFinite is false.
Malformed == { Undefined, NaN, PosInfinity, NegInfinity, Str(5 * Scale) }

\* A form on which every question holds the same value.
Uniform(x) == [q \in CatalogIds |-> x]

BaseValues == { Num(n) : n \in Likert } \cup { Undefined }

UniformSheets == { Uniform(b) : b \in BaseValues }

\* A uniform form on which one question was changed to any value.
OneChangeSheets ==
    { [Uniform(b) EXCEPT ![q] = x] :
        b \in BaseValues, q \in CatalogIds,
        x \in { Num(n) : n \in FiniteRatings } \cup Malformed }

\* A form whose first k questions hold Likert ratings, the others missing.
PrefixSheets ==
    UNION { { [q \in CatalogIds |->
                 IF \E i \in 1..k : QUESTIONS[i].id = q
                 THEN Num(f[CHOOSE i \in 1..k : QUESTIONS[i].id = q])
                 ELSE Undefined] :
              f \in [1..k -> Likert] } : k \in 1..MaxAnswered }

\* A form on which every reverse-flagged question holds one rating and every
\* other question another.
KeyedSheets ==
    { [q \in CatalogIds |-> IF q \in ReverseFlagged THEN Num(b) ELSE Num(a)] :
        a \in Likert, b \in Likert }

\* Keys a response object may carry that no catalog lists.
OutOfCatalog == {"Q35", "Q00"}

\* A uniform form that also carries keys from outside the catalog.
ExtraKeySheets ==
    { [q \in CatalogIds \cup K |-> IF q \in CatalogIds THEN b ELSE x] :
        b \in BaseValues, K \in (SUBSET OutOfCatalog) \ {{}},
        x \in { Num(n) : n \in Likert } \cup { Str(5 * Scale) } }

ResponseSets ==
    UniformSheets \cup OneChangeSheets \cup PrefixSheets \cup KeyedSheets \cup ExtraKeySheets

(***************************************************************************)
(* One scoring run: computeScores on a response set under one of the two   *)
(* schemas, then the ranking helpers on its result.                        *)
(***************************************************************************)
VARIABLES
    resp,       \* the response set handed to computeScores
    schema,     \* "none" before scoring, then "facet" or "simple"
    scores,     \* the ScoreResult
    topTwo,     \* result of topTwoBigFive, <<>> before the call
    topThree    \* result of topThreeMajor, <<>> before the call

scoreVars == <<resp, schema, scores, topTwo, topThree>>

\* The audio analyzer (audio_analyzer.js): one processAudio run.
VARIABLES
    file,       \* the audio file at audioPath: does it exist, its extension, its size
    pc,         \* where processAudio stands
    attempt,    \* the loop variable of transcribeAudio
    tries,      \* what each iteration of the retry loop met, in order
    calls,      \* the OpenAI API calls issued so far, in order
    delays,     \* the delays (ms) handed to sleep, in order
    error,      \* the error that ended the run, "none" while there is none
    transcript  \* what transcribeAudio returned, "none" before

audioVars == <<file, pc, attempt, tries, calls, delays, error, transcript>>

\* The output directory and the saveFiles calls working in it.
VARIABLES
    folders,    \* the folders in output/: 0 is <name>, k is <name>_k
    files,      \* the files written: <<folder, file name>> -> the call that wrote last
    spc,        \* where each saveFiles call stands
    counter,    \* the counter of each saveFiles call
    folder      \* the folder each saveFiles call is trying (audioFolderPath)

saveVars == <<folders, files, spc, counter, folder>>

\* The two HTTP handlers in front of Gemini (dev middleware and serverless): one request.
VARIABLES
    request,    \* the request: handler, implementation, method, body fields, API key set or not
    hpc,        \* where the handler stands
    fetchIndex, \* the loop variable i of geminiGenerate
    fetched,    \* what each fetch of geminiGenerate met, in order
    backoffs,   \* the delays (ms) geminiGenerate waited, in order
    generated,  \* how geminiGenerate completed, "pending" before
    chunks,     \* the chunks the image handler took from the stream, in order
    responses   \* the responses sent, in order

geminiVars == <<request, hpc, fetchIndex, fetched, backoffs, generated, chunks, responses>>

\* The questionnaire page: one submission of the form.
VARIABLES
    submitBtnDisabled,  \* submitBtn.disabled
    modalHidden,        \* the hidden attribute of #progressModal
    upc,                \* where the submit handler stands
    timerAt,            \* when the 150 ms timer of the handler is due
    textReq,            \* how the analysis request settles
    now,                \* performance.now(), in time units
    current,            \* the variable current of createProgress
    animations,         \* the animateTo calls so far: start, begin, end, duration, resolved
    rafPending,         \* the tick callbacks requested for the next frame, in order
    rafRunning,         \* the tick callbacks of the running frame not yet called
    sections,           \* what renderReport appended to #reportText
    genSetRuns          \* how many times generateSet ran

uiVars == <<submitBtnDisabled, modalHidden, upc, timerAt, textReq, now, current, animations,
            rafPending, rafRunning, sections, genSetRuns>>

\* The minigame (game.js).
VARIABLES
    score,
    gameOver,
    dodgedBullets,  \* ids of the bullets counted
    player,         \* y and currentPlatform (x, width and height never change)
    bullets,        \* the bullets array
    bulletId,       \* the next bullet id
    crossed,        \* ids of the bullets since the last reset that an update saw left of player.x
    collided        \* ids of the bullets since the last reset that an update saw hit the player

gameVars == <<score, gameOver, dodgedBullets, player, bullets, bulletId, crossed, collided>>

vars == <<scoreVars, audioVars, saveVars, geminiVars, uiVars, gameVars>>

NoScores == [none |-> 0]

\* How many saveFiles calls there are.
MaxRuns == 3

Runs == 1..MaxRuns

\* No processAudio run.
AudioIdle ==
    /\ file = [exists |-> FALSE, ext |-> "", size |-> 0]
    /\ pc = "idle"
    /\ attempt = 0
    /\ tries = <<>>
    /\ calls = <<>>
    /\ delays = <<>>
    /\ error = "none"
    /\ transcript = "none"

\* An empty output directory and no saveFiles call.
SaveIdle ==
    /\ folders = {}
    /\ files = <<>>
    /\ spc = [p \in Runs |-> "idle"]
    /\ counter = [p \in Runs |-> 1]
    /\ folder = [p \in Runs |-> 0]

\* No scoring run.
ScoreIdle ==
    /\ resp = <<>>
    /\ schema = "none"
    /\ scores = NoScores
    /\ topTwo = <<>>
    /\ topThree = <<>>

\* No request to the Gemini handlers.
GeminiIdle ==
    /\ request = [handler |-> "none", impl |-> "none", method |-> "none",
                  fields |-> {}, apiKey |-> FALSE]
    /\ hpc = "idle"
    /\ fetchIndex = 0
    /\ fetched = <<>>
    /\ backoffs = <<>>
    /\ generated = [kind |-> "pending"]
    /\ chunks = <<>>
    /\ responses = <<>>

\* The page with no submission.
UiIdle ==
    /\ submitBtnDisabled = FALSE
    /\ modalHidden = TRUE
    /\ upc = "idle"
    /\ timerAt = 0
    /\ textReq = [kind |-> "none"]
    /\ now = 0
    /\ current = 0
    /\ animations = <<>>
    /\ rafPending = <<>>
    /\ rafRunning = <<>>
    /\ sections = <<>>
    /\ genSetRuns = 0

\* The minigame not loaded.
GameIdle ==
    /\ score = 0
    /\ gameOver = FALSE
    /\ dodgedBullets = {}
    /\ player = [y |-> 0, currentPlatform |-> 0]
    /\ bullets = <<>>
    /\ bulletId = 0
    /\ crossed = {}
    /\ collided = {}

\* Nothing but the subsystem under study is running.
OthersIdle == GeminiIdle /\ UiIdle /\ GameIdle

ScoreInit ==
    /\ resp \in ResponseSets
    /\ schema = "none"
    /\ scores = NoScores
    /\ topTwo = <<>>
    /\ topThree = <<>>
    /\ AudioIdle
    /\ SaveIdle
    /\ OthersIdle

\* computeScores(resp) of lib/score.ts
ComputeScores ==
    /\ schema = "none"
    /\ schema' = "facet"
    /\ scores' = computeScores(resp)
    /\ UNCHANGED <<resp, topTwo, topThree, audioVars, saveVars, geminiVars, uiVars, gameVars>>

\* computeScores(resp) of the 20-item variant
ComputeScoresSimple ==
    /\ schema = "none"
    /\ schema' = "simple"
    /\ scores' = computeScoresSimple(resp)
    /\ UNCHANGED <<resp, topTwo, topThree, audioVars, saveVars, geminiVars, uiVars, gameVars>>

\* topTwoBigFive(scores), exported by both variants
TopTwoBigFive ==
    /\ schema # "none"
    /\ topTwo = <<>>
    /\ topTwo' = topTwoBigFive(scores)
    /\ UNCHANGED <<resp, schema, scores, topThree, audioVars, saveVars, geminiVars, uiVars, gameVars>>

\* topThreeMajor(scores), exported by lib/score.ts only
TopThreeMajor ==
    /\ schema = "facet"
    /\ topThree = <<>>
    /\ topThree' = topThreeMajor(scores)
    /\ UNCHANGED <<resp, schema, scores, topTwo, audioVars, saveVars, geminiVars, uiVars, gameVars>>

ScoreNext ==
    \/ ComputeScores
    \/ ComputeScoresSimple
    \/ TopTwoBigFive
    \/ TopThreeMajor

ScoreSpec == ScoreInit /\ [][ScoreNext]_vars

(***************************************************************************)
(* The audio analyzer: validateAudioFile, transcribeAudio with its retry   *)
(* loop, summarizeText, calculateAnalytics and processAudio.               *)
(***************************************************************************)
SUPPORTED_AUDIO_FORMATS ==
    {".mp3", ".mp4", ".mpeg", ".mpga", ".m4a", ".wav", ".webm", ".flac"}

MAX_FILE_SIZE_MB == 25

MAX_FILE_SIZE_BYTES == MAX_FILE_SIZE_MB * 1024 * 1024

maxRetries == 3

baseDelay == 1000

\* The extensions path.parse(audioPath).ext takes here.
Extensions == {".mp3", ".MP3", ".Flac", ".ogg", ""}

\* String.prototype.toLowerCase on those extensions.
toLowerCase ==
    ".mp3" :> ".mp3" @@ ".MP3" :> ".mp3" @@ ".Flac" :> ".flac" @@ ".ogg" :> ".ogg" @@
    "" :> ""

\* File sizes in bytes, around the limit.
Sizes == {0, MAX_FILE_SIZE_BYTES - 1, MAX_FILE_SIZE_BYTES, MAX_FILE_SIZE_BYTES + 1}

AudioFiles == [exists : BOOLEAN, ext : Extensions, size : Sizes]

\* A mutant of validateAudioFile: the size is not checked.
validateAudioFileNoSizeCheck(f) ==
    IF ~f.exists THEN "Audio file not found"
    ELSE IF toLowerCase[f.ext] \notin SUPPORTED_AUDIO_FORMATS
         THEN "Unsupported audio format"
         ELSE "passed"

\* validateAudioFile: the message of the error it throws, "passed" if none.
validateAudioFile(f) ==
    IF ~f.exists THEN "Audio file not found"
    ELSE IF toLowerCase[f.ext] \notin SUPPORTED_AUDIO_FORMATS
         THEN "Unsupported audio format"
         ELSE IF f.size > MAX_FILE_SIZE_BYTES THEN "File too large" ELSE "passed"

\* An error object: its message, its code and its status ("undefined" and
\* Undefined where the property is absent).
Err(message, code, status) == [message |-> message, code |-> code, status |-> status]

NoError == Err("", "undefined", Undefined)

\* Errors the transcription request can be rejected with.
ApiErrors ==
    { Err("Rate limit exceeded", "rate_limit_exceeded", Num(429)),
      Err("Rate limit exceeded", "undefined", Num(429)),
      Err("Internal server error", "undefined", Num(500)),
      Err("Request Timeout", "undefined", Undefined),
      Err("Incorrect API key provided", "invalid_api_key", Num(401)) }

\* Errors fs.readFile can be rejected with.
FsErrors == { Err("ENOENT: no such file or directory", "ENOENT", Undefined) }

retryableErrors == {"rate_limit_exceeded", "api_error", "connection_error", "timeout"}

\* Which of the retryableErrors each message includes once lower-cased.
LowerCaseIncludes ==
    "Rate limit exceeded" :> {} @@
    "Internal server error" :> {} @@
    "Request Timeout" :> {"timeout"} @@
    "Incorrect API key provided" :> {} @@
    "ENOENT: no such file or directory" :> {}

\* isRetryableError(error)
isRetryableError(e) ==
    \E type \in retryableErrors :
        \/ type \in LowerCaseIncludes[e.message]
        \/ e.code = "rate_limit_exceeded"
        \/ (e.status.t = "number" /\ e.status.n >= 500)

\* const delay = baseDelay * Math.pow(2, attempt)
Delay(a) == baseDelay * 2^a

\* A mutant of ShouldRetry: whatever the error, while attempts remain.
ShouldRetryAnyError(e, a) == a < maxRetries - 1

\* if (this.isRetryableError(error) && attempt < maxRetries - 1)
ShouldRetry(e, a) == isRetryableError(e) /\ a < maxRetries - 1

\* What one iteration of the retry loop can meet: readFile rejected (no API
\* call), the transcription request fulfilled, or rejected.
TryOutcomes ==
    { [api |-> FALSE, ok |-> FALSE, err |-> e] : e \in FsErrors } \cup
    { [api |-> TRUE, ok |-> TRUE, err |-> NoError] } \cup
    { [api |-> TRUE, ok |-> FALSE, err |-> e] : e \in ApiErrors }

\* An OpenAI API call and whether it was fulfilled.
Call(api, ok) == [api |-> api, ok |-> ok]

\* How many of the folders <name>, <name>_1, ... may already be in output/.
MaxExisting == 2

OutputDirs == SUBSET (0..(MaxExisting - 1))

AudioInit ==
    /\ file \in AudioFiles
    /\ pc = "validate"
    /\ attempt = 0
    /\ tries = <<>>
    /\ calls = <<>>
    /\ delays = <<>>
    /\ error = "none"
    /\ transcript = "none"
    /\ folders \in OutputDirs
    /\ files = <<>>
    /\ spc = [p \in Runs |-> "idle"]
    /\ counter = [p \in Runs |-> 1]
    /\ folder = [p \in Runs |-> 0]
    /\ ScoreIdle
    /\ OthersIdle

\* await this.validateAudioFile(audioPath); a throw ends in process.exit(1)
ValidateAudioFile ==
    /\ pc = "validate"
    /\ IF validateAudioFile(file) = "passed"
       THEN pc' = "duration" /\ error' = error
       ELSE pc' = "exit1" /\ error' = validateAudioFile(file)
    /\ UNCHANGED <<file, attempt, tries, calls, delays, transcript, scoreVars, saveVars, geminiVars, uiVars, gameVars>>

\* await this.getAudioDuration(audioPath): it never throws
GetAudioDuration ==
    /\ pc = "duration"
    /\ pc' = "transcribe"
    /\ UNCHANGED <<file, attempt, tries, calls, delays, error, transcript, scoreVars, saveVars, geminiVars, uiVars, gameVars>>

\* One iteration of the for loop of transcribeAudio, up to its return, its
\* throw or its await this.sleep(delay).
TranscribeAudio ==
    /\ pc = "transcribe"
    /\ attempt < maxRetries
    /\ \E o \in TryOutcomes :
          /\ tries' = Append(tries, o)
          /\ calls' = IF o.api THEN Append(calls, Call("transcription", o.ok)) ELSE calls
          /\ IF o.ok
             THEN /\ transcript' = "text"
                  /\ pc' = "summarize"
                  /\ UNCHANGED <<delays, error>>
             ELSE IF ShouldRetry(o.err, attempt)
                  THEN /\ delays' = Append(delays, Delay(attempt))
                       /\ pc' = "sleep"
                       /\ UNCHANGED <<error, transcript>>
                  ELSE /\ pc' = "exit1"
                       /\ error' = "Transcription failed after 3 attempts"
                       /\ UNCHANGED <<delays, transcript>>
    /\ UNCHANGED <<file, attempt, scoreVars, saveVars, geminiVars, uiVars, gameVars>>

\* The timer of sleep fires; the loop goes to its next iteration.
SleepDone ==
    /\ pc = "sleep"
    /\ attempt' = attempt + 1
    /\ pc' = "transcribe"
    /\ UNCHANGED <<file, tries, calls, delays, error, transcript, scoreVars, saveVars, geminiVars, uiVars, gameVars>>

\* const summary = await this.summarizeText(transcription)
SummarizeText ==
    /\ pc = "summarize"
    /\ \E ok \in BOOLEAN :
          /\ calls' = Append(calls, Call("summary", ok))
          /\ IF ok
             THEN pc' = "analytics" /\ error' = error
             ELSE pc' = "exit1" /\ error' = "Summary generation failed"
    /\ UNCHANGED <<file, attempt, tries, delays, transcript, scoreVars, saveVars, geminiVars, uiVars, gameVars>>

\* A mutant of CalculateAnalytics: a failed topic extraction ends the run.
CalculateAnalyticsThrows ==
    /\ pc = "analytics"
    /\ \E ok \in BOOLEAN :
          /\ calls' = Append(calls, Call("topics", ok))
          /\ IF ok
             THEN pc' = "save" /\ error' = error
             ELSE pc' = "exit1" /\ error' = "Topic extraction failed"
    /\ UNCHANGED <<file, attempt, tries, delays, transcript, scoreVars, saveVars, geminiVars, uiVars, gameVars>>

\* const analytics = await this.calculateAnalytics(...): extractTopics falls
\* back to simpleTopicExtraction when the request or the parse fails.
CalculateAnalytics ==
    /\ pc = "analytics"
    /\ \E ok \in BOOLEAN : calls' = Append(calls, Call("topics", ok))
    /\ pc' = "save"
    /\ UNCHANGED <<file, attempt, tries, delays, error, transcript, scoreVars, saveVars, geminiVars, uiVars, gameVars>>

\* saveFiles is entered: audioFolderName = baseName, counter = 1.
StartSave(p) ==
    /\ spc[p] = "idle"
    /\ spc' = [spc EXCEPT ![p] = "access"]
    /\ counter' = [counter EXCEPT ![p] = 1]
    /\ folder' = [folder EXCEPT ![p] = 0]
    /\ UNCHANGED <<folders, files>>

\* A mutant of SaveAccess: the folder is taken without looking.
SaveAccessUnchecked(p) ==
    /\ spc[p] = "access"
    /\ spc' = [spc EXCEPT ![p] = "mkdir"]
    /\ UNCHANGED <<folder, counter, folders, files, scoreVars, audioVars, geminiVars, uiVars, gameVars>>

\* One pass of while (true): fs.access(audioFolderPath) succeeds and the next
\* numbered name is tried, or it fails and the loop is left.
SaveAccess(p) ==
    /\ spc[p] = "access"
    /\ IF folder[p] \in folders
       THEN /\ folder' = [folder EXCEPT ![p] = counter[p]]
            /\ counter' = [counter EXCEPT ![p] = counter[p] + 1]
            /\ spc' = spc
       ELSE /\ spc' = [spc EXCEPT ![p] = "mkdir"]
            /\ UNCHANGED <<folder, counter>>
    /\ UNCHANGED <<folders, files, scoreVars, audioVars, geminiVars, uiVars, gameVars>>

\* await fs.mkdir(audioFolderPath, { recursive: true }): no error when the
\* folder is already there.
SaveMkdir(p) ==
    /\ spc[p] = "mkdir"
    /\ folders' = folders \cup {folder[p]}
    /\ spc' = [spc EXCEPT ![p] = "transcription.md"]
    /\ UNCHANGED <<files, counter, folder, scoreVars, audioVars, geminiVars, uiVars, gameVars>>

\* The file written after each one, "saved" after the last.
AfterFile ==
    "transcription.md" :> "summary.md" @@ "summary.md" :> "analysis.json" @@
    "analysis.json" :> "saved"

\* await fs.writeFile(...) of the next of the three files.
SaveWriteFile(p) ==
    /\ spc[p] \in DOMAIN AfterFile
    /\ files' = (<<folder[p], spc[p]>> :> p) @@ files
    /\ spc' = [spc EXCEPT ![p] = AfterFile[spc[p]]]
    /\ UNCHANGED <<folders, counter, folder, scoreVars, audioVars, geminiVars, uiVars, gameVars>>

\* await this.saveFiles(...) is called by processAudio.
SaveFiles ==
    /\ pc = "save"
    /\ StartSave(1)
    /\ pc' = "saving"
    /\ UNCHANGED <<file, attempt, tries, calls, delays, error, transcript, scoreVars, geminiVars, uiVars, gameVars>>

\* saveFiles has returned; displayResults ends the run.
DisplayResults ==
    /\ pc = "saving"
    /\ spc[1] = "saved"
    /\ pc' = "done"
    /\ UNCHANGED <<file, attempt, tries, calls, delays, error, transcript, scoreVars, saveVars, geminiVars, uiVars, gameVars>>

AudioNext ==
    \/ ValidateAudioFile
    \/ GetAudioDuration
    \/ TranscribeAudio
    \/ SleepDone
    \/ SummarizeText
    \/ CalculateAnalytics
    \/ SaveFiles
    \/ SaveAccess(1)
    \/ SaveMkdir(1)
    \/ SaveWriteFile(1)
    \/ DisplayResults

AudioSpec == AudioInit /\ [][AudioNext]_vars

\* Every continuation of the run is resumed once what it awaits has settled.
AudioFairSpec == AudioSpec /\ WF_vars(AudioNext)

(***************************************************************************)
(* saveFiles called several times with the same base file name.            *)
(***************************************************************************)
SaveInit ==
    /\ AudioIdle
    /\ ScoreIdle
    /\ OthersIdle
    /\ folders \in OutputDirs
    /\ files = <<>>
    /\ spc = [p \in Runs |-> "idle"]
    /\ counter = [p \in Runs |-> 1]
    /\ folder = [p \in Runs |-> 0]

\* A saveFiles call starts while others may be under way.
SaveFilesCall(p) ==
    /\ StartSave(p)
    /\ UNCHANGED <<scoreVars, audioVars, geminiVars, uiVars, gameVars>>

\* A saveFiles call starts when no other is under way.
SaveFilesCallAlone(p) ==
    /\ \A q \in Runs : spc[q] \in {"idle", "saved"}
    /\ StartSave(p)
    /\ UNCHANGED <<scoreVars, audioVars, geminiVars, uiVars, gameVars>>

\* Runs of the analyzer that overlap.
SaveNext ==
    \E p \in Runs :
        \/ SaveFilesCall(p)
        \/ SaveAccess(p)
        \/ SaveMkdir(p)
        \/ SaveWriteFile(p)

SaveSpec == SaveInit /\ [][SaveNext]_vars

\* Calls that run one after another.
SaveSeqNext ==
    \E p \in Runs :
        \/ SaveFilesCallAlone(p)
        \/ SaveAccess(p)
        \/ SaveMkdir(p)
        \/ SaveWriteFile(p)

SaveSeqSpec == SaveInit /\ [][SaveSeqNext]_vars

(***************************************************************************)
(* Vocabulary of the properties.                                           *)
(***************************************************************************)
\* The declared order of the ranked traits, by display name.
Big5Order ==
    <<"Extraversion", "Conscientiousness", "Emotional Stability", "Openness",
      "Agreeableness">>

Major8Order ==
    Big5Order \o <<"Decisiveness", "Risk Orientation", "Self Insight">>

\* The score the result holds for a display name.
ScoreOf(s, name) ==
    CASE name = "Extraversion" -> s.Extraversion
      [] name = "Conscientiousness" -> s.Conscientiousness
      [] name = "Emotional Stability" -> s.EmotionalStability
      [] name = "Openness" -> s.Openness
      [] name = "Agreeableness" -> s.Agreeableness
      [] name = "Decisiveness" -> s.Decisiveness
      [] name = "Risk Orientation" -> s.RiskOrientation
      [] name = "Self Insight" -> s.SelfInsight

Names(order) == { order[i] : i \in 1..Len(order) }

Position(order, name) == CHOOSE i \in 1..Len(order) : order[i] = name

\* a ranks before b: a higher score, or an equal score and declared earlier.
RanksBefore(s, order, a, b) ==
    \/ ScoreOf(s, a) > ScoreOf(s, b)
    \/ ScoreOf(s, a) = ScoreOf(s, b) /\ Position(order, a) < Position(order, b)

\* top is the first n names of the declared order re-ranked by score.
IsTopN(s, order, top, n) ==
    /\ Len(top) = n
    /\ \A i \in 1..n : top[i] \in Names(order)
    /\ \A i, j \in 1..n : i < j => top[i] # top[j] /\ RanksBefore(s, order, top[i], top[j])
    /\ \A x \in Names(order) \ { top[i] : i \in 1..n } : RanksBefore(s, order, top[n], x)

MajorKeys ==
    { "Extraversion", "Conscientiousness", "EmotionalStability", "Openness",
      "Agreeableness", "Decisiveness", "RiskOrientation", "SelfInsight" }

\* Every number a ScoreResult holds.
AllFields(s, sch) ==
    { s[k] : k \in MajorKeys } \cup
    (IF sch = "facet"
     THEN { s.facets[k] : k \in DOMAIN s.facets } \cup
          { s.reportOnly[k] : k \in DOMAIN s.reportOnly }
     ELSE {})

\* Every catalog item is missing or holds an integer rating 1..7.
LikertOrMissing ==
    \A id \in CatalogIds : resp[id] = Undefined \/ resp[id] \in { Num(n) : n \in Likert }

Answered == { id \in CatalogIds : resp[id] # Undefined }

(***************************************************************************)
(* The scoring tables the prompts document (developerMessage).             *)
(***************************************************************************)
\* An item of a documented table: Qnn is read raw, Qnnr reversed.
Raw(id) == [id |-> id, rev |-> FALSE]

Rev(id) == [id |-> id, rev |-> TRUE]

\* FACETS (means 1..7), keyed as the ScoreResult keys them.
DocFacets ==
    "Extraversion: Assertiveness" :> <<Raw("Q01"), Raw("Q13"), Raw("Q21")>> @@
    "Extraversion: Sociability" :> <<Rev("Q07"), Rev("Q22"), Rev("Q34")>> @@
    "Conscientiousness: Orderliness" :> <<Raw("Q06"), Raw("Q12"), Raw("Q23")>> @@
    "Conscientiousness: Industriousness" :>
        <<Raw("Q02"), Raw("Q17"), Raw("Q24"), Raw("Q31")>> @@
    "Emotional Stability: Calmness" :> <<Rev("Q03"), Raw("Q08"), Raw("Q26")>> @@
    "Emotional Stability: Resilience" :> <<Raw("Q14"), Rev("Q25")>> @@
    "Openness: Intellect" :> <<Raw("Q04"), Raw("Q15"), Raw("Q28")>> @@
    "Openness: Aesthetic" :> <<Raw("Q27"), Rev("Q09")>> @@
    "Agreeableness: Compassion" :> <<Raw("Q05"), Raw("Q19"), Raw("Q29")>> @@
    "Agreeableness: Candor" :> <<Raw("Q10"), Rev("Q16"), Raw("Q30")>>

\* MAJOR TRAITS (averages of their facets): the two facets of each trait.
DocTraitFacets ==
    [ Extraversion |-> <<"Extraversion: Assertiveness", "Extraversion: Sociability">>,
      Conscientiousness |->
          <<"Conscientiousness: Orderliness", "Conscientiousness: Industriousness">>,
      EmotionalStability |->
          <<"Emotional Stability: Calmness", "Emotional Stability: Resilience">>,
      Openness |-> <<"Openness: Intellect", "Openness: Aesthetic">>,
      Agreeableness |-> <<"Agreeableness: Compassion", "Agreeableness: Candor">> ]

\* The major traits the table builds from items.
DocComposites ==
    [ Decisiveness |-> <<Raw("Q11"), Raw("Q21"), Raw("Q30")>>,
      RiskOrientation |-> <<Raw("Q18"), Raw("Q28")>>,
      SelfInsight |-> <<Raw("Q20"), Raw("Q31"), Raw("Q32")>> ]

\* REPORT-ONLY SLIDERS
DocSliders ==
    [ FocusStyle |-> <<Raw("Q31"), Raw("Q32")>>,
      FeedbackPreference |-> <<Raw("Q30"), Raw("Q33")>>,
      SocialRecharge |-> <<Raw("Q22"), Raw("Q34")>> ]

\* Trait means of the simple prompt, and its report-only items.
DocSimple ==
    [ Extraversion |-> <<Raw("Q01"), Rev("Q07"), Raw("Q13")>>,
      Conscientiousness |-> <<Raw("Q02"), Raw("Q06"), Raw("Q12"), Raw("Q17")>>,
      EmotionalStability |-> <<Rev("Q03"), Raw("Q08"), Raw("Q14")>>,
      Openness |-> <<Raw("Q04"), Rev("Q09"), Raw("Q15")>>,
      Agreeableness |-> <<Raw("Q05"), Raw("Q10"), Rev("Q16"), Raw("Q19")>> ]

DocSimpleReportOnly ==
    [ Decisiveness |-> "Q11", RiskOrientation |-> "Q18", SelfInsight |-> "Q20" ]

(***************************************************************************)
(* Properties.                                                             *)
(***************************************************************************)
\* C1: resolve (v) returns the raw rating of a catalog identifier when it is
\* a finite number and 4 when the identifier is absent or holds undefined,
\* NaN, +/-Infinity or a non-number; on the empty response set it returns 4
\* for every identifier.  The simple schema hands the resolved values of
\* Q11, Q18 and Q20 out unchanged.
C1_Resolve ==
    /\ \A id \in CatalogIds :
          v(resp, id) =
            CASE resp[id].t = "number" -> resp[id].n
              [] resp[id].t \in {"undefined", "NaN", "Infinity", "-Infinity", "string"} ->
                   4 * Scale
    /\ Answered = {} => \A id \in CatalogIds : v(resp, id) = 4 * Scale
    /\ schema = "simple" /\ resp["Q11"].t # "number" => scores.Decisiveness = 4 * Scale
    /\ schema = "simple" /\ resp["Q11"].t = "number" => scores.Decisiveness = resp["Q11"].n

C1_Witness ==
    /\ schema = "simple"
    /\ resp["Q11"] \in {NaN, PosInfinity, NegInfinity, Str(5 * Scale)}
    /\ scores.Decisiveness = 4 * Scale
    /\ \E id \in CatalogIds : resp[id].t = "number" /\ v(resp, id) = resp[id].n

\* C2: for a response set whose every item is missing or a rating 1..7,
\* every field of the ScoreResult lies in [1.00, 7.00], under both schemas.
C2_InRange ==
    schema # "none" /\ LikertOrMissing =>
        \A x \in AllFields(scores, schema) : 1 * Scale <= x /\ x <= 7 * Scale

\* All but one identifier missing, facet schema, a field at a non-default value.
C2_Witness ==
    /\ schema = "facet"
    /\ LikertOrMissing
    /\ Cardinality(Answered) = 1
    /\ scores.facets["Extraversion: Sociability"] = 5 * Scale
    /\ \A x \in AllFields(scores, schema) : 1 * Scale <= x /\ x <= 7 * Scale

\* C3: topTwoBigFive returns exactly 2 distinct names of the five canonical
\* dimensions, in descending score order, no other dimension scoring higher
\* than the second; equal scores are ranked by declared order.
C3_TopTwo ==
    Len(topTwo) > 0 => IsTopN(scores, Big5Order, topTwo, 2)

\* A tie at the cut: the second name ties with a dimension that was left out,
\* and the first name is not the first declared one.
C3_Witness ==
    /\ Len(topTwo) = 2
    /\ topTwo[1] # "Extraversion"
    /\ \E x \in Names(Big5Order) \ {topTwo[1], topTwo[2]} :
          ScoreOf(scores, x) = ScoreOf(scores, topTwo[2])

\* C4: topThreeMajor returns exactly 3 distinct names of the 8 major traits,
\* in descending score order, no other trait scoring higher than the third;
\* equal scores are ranked by declared order.
C4_TopThree ==
    Len(topThree) > 0 => IsTopN(scores, Major8Order, topThree, 3)

\* A composite trait is ranked first and the third place is decided by a tie.
C4_Witness ==
    /\ Len(topThree) = 3
    /\ topThree[1] \in {"Decisiveness", "Risk Orientation", "Self Insight"}
    /\ \E x \in Names(Major8Order) \ {topThree[1], topThree[2], topThree[3]} :
          ScoreOf(scores, x) = ScoreOf(scores, topThree[3])

\* The values a documented item list stands for: 8 - response for Qnnr.
DocValues(items) ==
    [i \in 1..Len(items) |->
        IF items[i].rev THEN 8 * Scale - v(resp, items[i].id) ELSE v(resp, items[i].id)]

\* The values of an item list when exactly the questions the catalog flags
\* reverse-scored are inverted.
CatalogValues(items) ==
    [i \in 1..Len(items) |->
        IF items[i].id \in ReverseFlagged
        THEN 8 * Scale - v(resp, items[i].id) ELSE v(resp, items[i].id)]

RECURSIVE SumSeq(_, _)
SumSeq(nums, k) == IF k = 0 THEN 0 ELSE SumSeq(nums, k - 1) + nums[k]

\* num/den rounded to the nearest integer, a half rounded up.
RoundHalfUp(num, den) == (2 * num + den) \div (2 * den)

\* The mean of decimal numbers given in hundredths, rounded half-up to the
\* hundredth.
HalfUpMean(nums) == RoundHalfUp(SumSeq(nums, Len(nums)), Len(nums))

FacetPair(t) == <<scores.facets[DocTraitFacets[t][1]], scores.facets[DocTraitFacets[t][2]]>>

\* C5: avg returns the mean of its input list rounded half-up to two
\* decimals: stated for every avg call of a facet-schema run (facets over
\* items, canonical traits over their two facet scores, composites, sliders).
C5_AvgHalfUp ==
    schema = "facet" =>
        /\ \A f \in DOMAIN DocFacets : scores.facets[f] = HalfUpMean(DocValues(DocFacets[f]))
        /\ \A t \in DOMAIN DocTraitFacets : scores[t] = HalfUpMean(FacetPair(t))
        /\ \A c \in DOMAIN DocComposites : scores[c] = HalfUpMean(DocValues(DocComposites[c]))
        /\ \A k \in DOMAIN DocSliders :
              scores.reportOnly[k] = HalfUpMean(DocValues(DocSliders[k]))

\* How the reverse-scored questions enter the facets and the major traits.
ReverseInTraits ==
    /\ schema = "facet" =>
        /\ \A f \in DOMAIN DocFacets : scores.facets[f] = avg(CatalogValues(DocFacets[f]))
        /\ \A t \in DOMAIN DocTraitFacets : scores[t] = avg(FacetPair(t))
        /\ \A c \in DOMAIN DocComposites : scores[c] = avg(CatalogValues(DocComposites[c]))
    /\ schema = "simple" =>
        \A t \in DOMAIN DocSimple : scores[t] = avg(CatalogValues(DocSimple[t]))

\* C6 as stated: every reverse-flagged question enters every aggregate it
\* feeds (facet, major trait, report-only slider) as 8 - v.
C6_ReverseEverywhere ==
    /\ ReverseInTraits
    /\ schema = "facet" =>
        \A k \in DOMAIN DocSliders :
            scores.reportOnly[k] = avg(CatalogValues(DocSliders[k]))

\* C6 amended: every reverse-flagged question enters every facet and every
\* major trait it feeds as 8 - v; the Social Recharge slider reads the
\* reverse-flagged Q22 and Q34 raw.
C6_ReverseInTraits ==
    /\ ReverseInTraits
    /\ schema = "facet" =>
        scores.reportOnly.SocialRecharge = avg(<<v(resp, "Q22"), v(resp, "Q34")>>)

\* Q22 rated 7: Sociability takes it as 1, Social Recharge as 7.
C6_Witness ==
    /\ schema = "facet"
    /\ resp["Q22"] = Num(7 * Scale)
    /\ resp["Q34"] = Undefined
    /\ scores.facets["Extraversion: Sociability"] = 3 * Scale
    /\ scores.reportOnly.SocialRecharge = 550

\* C7: under the facet schema computeScores is the documented table: every
\* facet is avg over its listed items (Qnnr reversed), every canonical trait
\* is avg of its two facet scores, the composite traits and the sliders are
\* avg over their listed raw items.
C7_FacetTable ==
    schema = "facet" =>
        /\ \A f \in DOMAIN DocFacets : scores.facets[f] = avg(DocValues(DocFacets[f]))
        /\ \A t \in DOMAIN DocTraitFacets : scores[t] = avg(FacetPair(t))
        /\ \A c \in DOMAIN DocComposites : scores[c] = avg(DocValues(DocComposites[c]))
        /\ \A k \in DOMAIN DocSliders : scores.reportOnly[k] = avg(DocValues(DocSliders[k]))

\* Only Q27 answered: it moves Openness: Aesthetic and nothing else.
C7_Witness ==
    /\ schema = "facet"
    /\ Answered = {"Q27"}
    /\ resp["Q27"] = Num(7 * Scale)
    /\ scores.facets["Openness: Aesthetic"] = 550
    /\ scores.Openness = 475
    /\ scores.facets["Openness: Intellect"] = 4 * Scale

\* C8: under the simple schema computeScores is the documented table: the
\* five traits are avg over their listed items, with no facet layer, and
\* Decisiveness, Risk Orientation, Self Insight are the resolved values of
\* Q11, Q18, Q20.
C8_SimpleTable ==
    schema = "simple" =>
        /\ \A t \in DOMAIN DocSimple : scores[t] = avg(DocValues(DocSimple[t]))
        /\ \A t \in DOMAIN DocSimpleReportOnly : scores[t] = v(resp, DocSimpleReportOnly[t])
        /\ DOMAIN scores = MajorKeys

\* Only Q16 answered, with 1: Agreeableness is avg(4, 4, 7, 4).
C8_Witness ==
    /\ schema = "simple"
    /\ Answered = {"Q16"}
    /\ resp["Q16"] = Num(1 * Scale)
    /\ scores.Agreeableness = 475

\* The mean of the two facets' exact item means, rounded once (half-up).
SingleRounding(t) ==
    LET a  == DocValues(DocFacets[DocTraitFacets[t][1]])
        b  == DocValues(DocFacets[DocTraitFacets[t][2]])
    IN  RoundHalfUp(SumSeq(a, Len(a)) * Len(b) + SumSeq(b, Len(b)) * Len(a),
                    2 * Len(a) * Len(b))

ResolvesToLikert == \A id \in CatalogIds : v(resp, id) \in Likert

C10_Midpoint ==
    schema # "none" /\ (\A id \in CatalogIds : resp[id] \in {Num(4 * Scale), Undefined}) =>
        \A x \in AllFields(scores, schema) : x = 4 * Scale

\* Rated 4 throughout, a reverse-scored item left missing, facet schema.
C10_Witness ==
    /\ schema = "facet"
    /\ resp["Q03"] = Undefined
    /\ \A id \in CatalogIds \ {"Q03"} : resp[id] = Num(4 * Scale)
    /\ \A x \in AllFields(scores, schema) : x = 4 * Scale

\* Every non-reversed item of the 20-item catalog rated 7, every reverse-scored
\* one rated 1.
ExtremeSheet ==
    \A id \in SimpleCatalogIds :
        Lookup(resp, id) = IF id \in ReverseFlagged THEN Num(1 * Scale) ELSE Num(7 * Scale)

\* C11: simple schema, every non-reversed item Q01..Q20 rated 7 and every
\* reverse-scored item rated 1: each reversed item contributes 7 and each of
\* the 8 major traits is 7.00.
C11_SimpleAllSeven ==
    schema = "simple" /\ ExtremeSheet =>
        /\ \A id \in SimpleCatalogIds \cap ReverseFlagged : r(resp, id) = 7 * Scale
        /\ \A t \in MajorKeys : scores[t] = 7 * Scale

C11_Witness ==
    /\ schema = "simple"
    /\ ExtremeSheet
    /\ scores.Agreeableness = 7 * Scale
    /\ scores.SelfInsight = 7 * Scale

\* C12: reverse(id) is 8 - resolve(id); on a rating 1..7 it yields 8 - v,
\* stays within 1..7 and, applied to its own result, returns v; a rating of 4
\* and a missing or non-finite item reverse to 4.
C12_Reverse ==
    \A id \in CatalogIds :
        LET x  == Lookup(resp, id)
            rv == r(resp, id)
        IN  /\ rv = 8 * Scale - v(resp, id)
            /\ x.t = "number" /\ x.n \in Likert =>
                  /\ rv = 8 * Scale - x.n
                  /\ rv \in Likert
                  /\ r([resp EXCEPT ![id] = Num(rv)], id) = x.n
            /\ (~NumberIsFinite(x) \/ x = Num(4 * Scale)) => rv = 4 * Scale

\* Only the reverse-scored Q25 answered, with 2: Resilience is avg(4, 6).
C12_Witness ==
    /\ schema = "facet"
    /\ Answered = {"Q25"}
    /\ resp["Q25"] = Num(2 * Scale)
    /\ r(resp, "Q25") = 6 * Scale
    /\ scores.facets["Emotional Stability: Resilience"] = 5 * Scale

\* C13: on any response mapping (empty, partial, holding non-numbers or
\* non-finite values) computeScores returns, and the result is complete: the
\* 8 major traits under both schemas, the 10 facets and the 3 sliders under
\* the facet schema only, every one of them a number.
C13_Complete ==
    /\ schema = "simple" => DOMAIN scores = MajorKeys
    /\ schema = "facet" =>
          /\ DOMAIN scores = MajorKeys \cup {"facets", "reportOnly"}
          /\ DOMAIN scores.facets = DOMAIN DocFacets
          /\ Cardinality(DOMAIN scores.facets) = 10
          /\ DOMAIN scores.reportOnly = DOMAIN DocSliders
          /\ Cardinality(DOMAIN scores.reportOnly) = 3
    /\ schema # "none" => \A x \in AllFields(scores, schema) : x \in Int

\* A form holding NaN, scored under the simple schema.
C13_Witness ==
    /\ schema = "simple"
    /\ \E id \in SimpleCatalogIds : resp[id] = NaN
    /\ DOMAIN scores = MajorKeys
    /\ \A t \in MajorKeys : scores[t] \in Int

\* The identifiers a schema's catalog lists, with what the form holds there.
CatalogPart(x, ids) == [q \in ids |-> Lookup(x, q)]

\* Response sets that agree with x on every identifier of ids: x cut down to
\* ids, and that with keys from outside added.
Agreeing(x, ids) ==
    { CatalogPart(x, ids),
      [q \in ids \cup OutOfCatalog |-> IF q \in ids THEN Lookup(x, q) ELSE Num(7 * Scale)] }

C15_InRangeAlways ==
    schema # "none" =>
        \A x \in AllFields(scores, schema) : 1 * Scale <= x /\ x <= 7 * Scale

\* An iteration of the retry loop that failed with an error isRetryableError
\* accepts.
RetryableFailure(o) == ~o.ok /\ isRetryableError(o.err)

\* C16: while transcription keeps failing with retryable errors the waits are
\* 1 s after the first failed attempt, 2 s after the second and 4 s after the
\* third.
C16_BackoffDelays ==
    \A k \in 1..Len(tries) :
        (\A i \in 1..k : RetryableFailure(tries[i])) =>
            /\ Len(delays) >= k
            /\ delays[k] = <<1000, 2000, 4000>>[k]

\* The file passes the three checks the documentation lists.
PassesValidation ==
    /\ file.exists
    /\ toLowerCase[file.ext] \in
          {".mp3", ".mp4", ".mpeg", ".mpga", ".m4a", ".wav", ".webm", ".flac"}
    /\ file.size <= 25 * 1024 * 1024

\* C17: processAudio issues no OpenAI API call unless validation has passed
\* (the file exists, its lower-cased extension is supported, its size is at
\* most 25 MB); the checks run existence, format, size, and the first that
\* fails aborts the run.
C17_ValidatedFirst ==
    /\ calls # <<>> => PassesValidation
    /\ pc = "validate" => calls = <<>>
    /\ pc \notin {"validate", "exit1"} => PassesValidation
    /\ ~PassesValidation /\ pc # "validate" =>
          /\ pc = "exit1"
          /\ error = IF ~file.exists THEN "Audio file not found"
                     ELSE IF toLowerCase[file.ext] \notin SUPPORTED_AUDIO_FORMATS
                          THEN "Unsupported audio format"
                          ELSE "File too large"

\* A file of exactly 25 MB with an upper-case extension reaches the API.
C17_Witness ==
    /\ file.ext = ".MP3"
    /\ file.size = 25 * 1024 * 1024
    /\ Len(calls) = 3
    /\ pc = "save"

\* The lowest-numbered folder name that is free: <name> itself (0) or <name>_k.
LowestFree(S) == CHOOSE k \in 0..Cardinality(S) : k \notin S /\ \A j \in 0..(k - 1) : j \in S

FileNames == {"transcription.md", "summary.md", "analysis.json"}

\* The call has chosen its folder.
Chosen(p) == spc[p] \in {"mkdir", "saved"} \cup FileNames

\* C18: when saveFiles calls with the same base name run one after another,
\* each writes into a folder that did not exist when it started, the
\* lowest-numbered free one of <name>, <name>_1, <name>_2, ...; no call writes
\* into a folder of an earlier call or overwrites its files.
C18_FreshFolder ==
    /\ [][\A p \in Runs :
            /\ spc[p] = "access" => folders' = folders
            /\ spc[p] = "mkdir" /\ spc'[p] # "mkdir" =>
                  folder[p] \notin folders /\ folder[p] = LowestFree(folders)]_vars
    /\ [][\A k \in DOMAIN files : k \in DOMAIN files' /\ files'[k] = files[k]]_vars
    /\ [](\A p, q \in Runs : p # q /\ Chosen(p) /\ Chosen(q) => folder[p] # folder[q])
    /\ [](\A p \in Runs : spc[p] = "saved" =>
            \A n \in FileNames :
                <<folder[p], n>> \in DOMAIN files /\ files[<<folder[p], n>>] = p)

\* Three calls in an empty output directory: <name>, <name>_1, <name>_2.
C18_Witness ==
    /\ \A p \in Runs : spc[p] = "saved"
    /\ { folder[p] : p \in Runs } = {0, 1, 2}
    /\ folders = {0, 1, 2}
    /\ Cardinality(DOMAIN files) = 9

\* C19: when runs with the same base name overlap, their saveFiles steps
\* never choose the same folder, and no run's files are overwritten by
\* another run.
C19_DistinctFolders ==
    /\ \A p, q \in Runs : p # q /\ Chosen(p) /\ Chosen(q) => folder[p] # folder[q]
    /\ \A p \in Runs : spc[p] = "saved" =>
          \A n \in FileNames :
              <<folder[p], n>> \in DOMAIN files /\ files[<<folder[p], n>>] = p

\* transcribeAudio is under way.
Transcribing == pc \in {"transcribe", "sleep"}

TranscriptionCalls == { i \in 1..Len(calls) : calls[i].api = "transcription" }

\* What holds of transcribeAudio at every moment.
C20_Bounded ==
    /\ Cardinality(TranscriptionCalls) <= 3
    /\ Len(tries) <= 3
    /\ \A i \in 1..(Len(tries) - 1) : RetryableFailure(tries[i])
    /\ Len(tries) = 0 => transcript = "none" /\ delays = <<>>
    /\ Len(tries) > 0 =>
          LET last == tries[Len(tries)]
          IN  /\ last.ok =>
                    /\ transcript = "text"
                    /\ ~Transcribing
                    /\ Len(delays) = Len(tries) - 1
                    /\ pc = "exit1" => error = "Summary generation failed"
              /\ ~last.ok /\ (~isRetryableError(last.err) \/ Len(tries) = 3) =>
                    /\ pc = "exit1"
                    /\ error = "Transcription failed after 3 attempts"
                    /\ transcript = "none"
                    /\ Len(delays) = Len(tries) - 1
              /\ ~last.ok /\ isRetryableError(last.err) /\ Len(tries) < 3 =>
                    /\ Transcribing
                    /\ transcript = "none"
                    /\ Len(delays) = Len(tries)

Fulfilled(api) == \E i \in 1..Len(calls) : calls[i] = Call(api, TRUE)

Issued(api) == \E i \in 1..Len(calls) : calls[i].api = api

\* What holds of the output of processAudio at every moment.
C21_WrittenLast ==
    /\ spc[1] # "idle" \/ files # <<>> =>
          /\ PassesValidation
          /\ transcript = "text"
          /\ Fulfilled("summary")
          /\ Issued("topics")
    /\ pc = "exit1" =>
          /\ files = <<>>
          /\ spc[1] = "idle"
          /\ error \in { "Audio file not found", "Unsupported audio format", "File too large",
                         "Transcription failed after 3 attempts", "Summary generation failed" }
    /\ Issued("topics") => pc \in {"save", "saving", "done"}
    /\ pc = "done" => \A n \in FileNames : <<folder[1], n>> \in DOMAIN files

\* C21: processAudio creates the output folder and writes transcription.md,
\* summary.md and analysis.json only after validation, transcription,
\* summarization and analytics have completed; a failure of validation,
\* transcription or summarization exits with none of them written; a failed
\* GPT topic extraction does not keep the files from being written.
C21_FilesAfterAll ==
    /\ []C21_WrittenLast
    /\ (Issued("topics") ~> (pc = "done" /\ Cardinality(DOMAIN files) = 3))

\* The run ended with its three files although topic extraction failed.
C21_Witness ==
    /\ pc = "done"
    /\ calls[Len(calls)] = Call("topics", FALSE)
    /\ Cardinality(DOMAIN files) = 3

(***************************************************************************)
(* The Gemini handlers: /api/analyze-personality and /api/generate-image,  *)
(* as the dev middleware (vite.config) and as serverless functions (api/). *)
(* A text is a sequence of tokens: "*" and "\n" are the characters, every  *)
(* other token stands for a run of characters holding neither.             *)
(***************************************************************************)
Null == [t |-> "null", n |-> 0]

\* A string where null may stand as well.
JsString(s) == [t |-> "string", s |-> s]

\* String.prototype.replace(/\*\*/g, ''): a scan from the left, matches do not overlap
RECURSIVE RemoveBoldMarkers(_)
\* Mutant of RemoveBoldMarkers: the text is passed on as it came.
KeepBoldMarkers(s) == s

RemoveBoldMarkers(s) ==
    IF Len(s) = 0 THEN <<>>
    ELSE IF Len(s) >= 2 /\ s[1] = "*" /\ s[2] = "*"
         THEN RemoveBoldMarkers(SubSeq(s, 3, Len(s)))
         ELSE <<s[1]>> \o RemoveBoldMarkers(Tail(s))

\* parts.map(p => p?.text || '').join('')
RECURSIVE JoinTexts(_)
JoinTexts(parts) ==
    IF Len(parts) = 0 THEN <<>> ELSE parts[1].text \o JoinTexts(Tail(parts))

\* The texts a part of a Gemini answer carries; <<>> is a part without text.
PartTexts ==
    { <<>>,
      <<"*">>,
      <<"*", "*", "*", "x">>,
      <<"x", "\n">>,
      <<"*", "*", "Strengths", "*", "*", ":", "\n", "x", "\n">>,
      <<"*", "*", "Potential Blind Spots", "*", "*", "\n", "x">> }

\* How many parts an answer has at most.
MaxParts == 2

PartLists ==
    UNION { [1..n -> { [text |-> t] : t \in PartTexts }] : n \in 0..MaxParts }

\* The parsed JSON of an OK response: candidates[0].content.parts is a list
\* (empty when any link of the chain is missing) or is not an array.
Payloads ==
    { [shape |-> "parts", parts |-> ps] : ps \in PartLists }
        \cup { [shape |-> "partsNotArray", parts |-> <<>>] }

\* What one fetch can meet: a rejection (network), or a response with a
\* status; the body of an OK response parses to a payload or does not parse.
FetchOutcomes ==
    { [kind |-> "rejected", status |-> 0, json |-> Null] }
        \cup { [kind |-> "response", status |-> 200, json |-> j] : j \in Payloads \cup {Null} }
        \cup { [kind |-> "response", status |-> st, json |-> Null] : st \in {404, 429, 500, 503} }

\* r.ok
Ok(o) == o.status \in 200..299

\* geminiGenerate(..., retries = 2)
retries == 2

\* Mutant of ShouldBackoff: a 429 or 503 is retried whatever the attempt.
ShouldBackoffAlways(status, a) == status \in {429, 503}

\* (r.status === 429 || r.status === 503) && i < retries
ShouldBackoff(status, a) == status \in {429, 503} /\ a < retries

\* 400 * Math.pow(2, i)
BackoffMs(a) == 400 * 2^a

Returned(value) == [kind |-> "return", value |-> value]

Thrown == [kind |-> "throw", value |-> Null]

\* The sample report the dev middleware falls back to.
fallbackText ==
    <<"Title", ":", "x", "\n",
      "\n",
      "Strengths", ":", "\n",
      "-", "x", "\n",
      "\n",
      "Potential Blind Spots", ":", "\n",
      "-", "x">>

Messages == {"systemMessage", "developerMessage", "userMessage"}

Methods == {"OPTIONS", "GET", "POST"}

Requests ==
    { [handler |-> "analyze-personality", impl |-> im, method |-> me, fields |-> fs, apiKey |-> k] :
        im \in {"dev", "serverless"}, me \in Methods, fs \in SUBSET Messages, k \in BOOLEAN }
    \cup
    { [handler |-> "generate-image", impl |-> im, method |-> me, fields |-> fs, apiKey |-> k] :
        im \in {"dev", "serverless"}, me \in Methods, fs \in SUBSET {"prompt"}, k \in BOOLEAN }

Response(status, body) == [status |-> status, body |-> body]

TextBody(text) == [text |-> text]

ErrorBody(message) == [error |-> message]

ImageBody(url, err) == [url |-> url, error |-> err]

\* res.status(200).end()
NoBody == [empty |-> TRUE]

\* json(res, 200, {})
EmptyObject == [object |-> TRUE]

\* Mutant of Unavailable: the error is left out.
UnavailableNoError == ImageBody(Null, Null)

\* { url: null, error: 'image_generation_unavailable' }
Unavailable == ImageBody(Null, JsString("image_generation_unavailable"))

\* `data:${mimeType};base64,${imageData}`
DataUrl(mimeType, data) == [scheme |-> "data", mimeType |-> mimeType, base64 |-> data]

\* What the image stream can deliver next. A chunk is seen through
\* candidates[0].content.parts[0]: no parts at all, a first part without
\* inlineData, or a first part with inlineData (data empty or not, mimeType
\* given or not).
Chunks ==
    { [kind |-> "noParts", data |-> "", mimeType |-> ""],
      [kind |-> "noInlineData", data |-> "", mimeType |-> ""],
      [kind |-> "inlineData", data |-> "", mimeType |-> "image/jpeg"],
      [kind |-> "inlineData", data |-> "iVBOR", mimeType |-> "image/jpeg"],
      [kind |-> "inlineData", data |-> "iVBOR", mimeType |-> ""] }

\* How many chunks a stream delivers at most before it ends.
MaxChunks == 2

GeminiInit ==
    /\ request \in Requests
    /\ hpc = "received"
    /\ fetchIndex = 0
    /\ fetched = <<>>
    /\ backoffs = <<>>
    /\ generated = [kind |-> "pending"]
    /\ chunks = <<>>
    /\ responses = <<>>
    /\ ScoreIdle /\ AudioIdle /\ SaveIdle /\ UiIdle /\ GameIdle

Send(status, body) ==
    /\ responses' = Append(responses, Response(status, body))
    /\ hpc' = "done"

\* The analyze-personality handler up to its call of geminiGenerate.
AnalyzeReceive ==
    /\ hpc = "received"
    /\ request.handler = "analyze-personality"
    /\ IF request.method = "OPTIONS"
       THEN Send(200, IF request.impl = "dev" THEN EmptyObject ELSE NoBody)
       ELSE IF request.method # "POST"
       THEN Send(405, ErrorBody("Method not allowed"))
       ELSE IF request.impl = "serverless" /\ request.fields # Messages
       THEN Send(400, ErrorBody("Missing fields"))
       ELSE IF ~request.apiKey
       THEN Send(200, TextBody(IF request.impl = "dev" THEN fallbackText ELSE <<>>))
       ELSE /\ hpc' = "fetch"
            /\ UNCHANGED responses
    /\ UNCHANGED <<request, fetchIndex, fetched, backoffs, generated, chunks>>
    /\ UNCHANGED <<scoreVars, audioVars, saveVars, uiVars, gameVars>>

\* One iteration of the loop of geminiGenerate, from fetch to return, throw
\* or backoff.
GeminiFetch ==
    /\ hpc = "fetch"
    /\ \E o \in FetchOutcomes :
        /\ fetched' = Append(fetched, o)
        /\ IF o.kind = "rejected"
           THEN /\ generated' = Thrown
                /\ hpc' = "settled"
                /\ UNCHANGED backoffs
           ELSE IF Ok(o)
           THEN /\ generated' = IF o.json = Null THEN Thrown ELSE Returned(o.json)
                /\ hpc' = "settled"
                /\ UNCHANGED backoffs
           ELSE IF ShouldBackoff(o.status, fetchIndex)
           THEN /\ backoffs' = Append(backoffs, BackoffMs(fetchIndex))
                /\ hpc' = "backoff"
                /\ UNCHANGED generated
           ELSE /\ generated' = Thrown
                /\ hpc' = "settled"
                /\ UNCHANGED backoffs
    /\ UNCHANGED <<request, fetchIndex, chunks, responses>>
    /\ UNCHANGED <<scoreVars, audioVars, saveVars, uiVars, gameVars>>

\* The backoff timer fires: continue, i++, and the loop test i <= retries.
GeminiBackoffDone ==
    /\ hpc = "backoff"
    /\ fetchIndex' = fetchIndex + 1
    /\ IF fetchIndex + 1 <= retries
       THEN /\ hpc' = "fetch"
            /\ UNCHANGED generated
       ELSE /\ hpc' = "settled"
            /\ generated' = Returned(Undefined)
    /\ UNCHANGED <<request, fetched, backoffs, chunks, responses>>
    /\ UNCHANGED <<scoreVars, audioVars, saveVars, uiVars, gameVars>>

\* The rest of the analyze-personality handler, once geminiGenerate settled.
AnalyzeRespond ==
    /\ hpc = "settled"
    /\ LET data == IF generated.kind = "return" THEN generated.value ELSE Null
           plain == data \in {Null, Undefined}
           raw == IF plain THEN <<>> ELSE JoinTexts(data.parts)
       IN  IF ~plain /\ data.shape = "partsNotArray"
           THEN IF request.impl = "dev"
                THEN Send(200, TextBody(fallbackText))
                ELSE Send(500, ErrorBody("Failed to analyze personality"))
           ELSE IF request.impl = "dev" /\ raw = <<>>
           THEN Send(200, TextBody(fallbackText))
           ELSE Send(200, TextBody(RemoveBoldMarkers(raw)))
    /\ UNCHANGED <<request, fetchIndex, fetched, backoffs, generated, chunks>>
    /\ UNCHANGED <<scoreVars, audioVars, saveVars, uiVars, gameVars>>

\* The generate-image handler up to its call of generateContentStream.
ImageReceive ==
    /\ hpc = "received"
    /\ request.handler = "generate-image"
    /\ IF request.method = "OPTIONS"
       THEN Send(200, IF request.impl = "dev" THEN EmptyObject ELSE NoBody)
       ELSE IF request.method # "POST"
       THEN Send(405, ErrorBody("Method not allowed"))
       ELSE IF "prompt" \notin request.fields
       THEN Send(400, ErrorBody("Prompt is required"))
       ELSE IF ~request.apiKey
       THEN Send(200, Unavailable)
       ELSE /\ hpc' = "stream"
            /\ UNCHANGED responses
    /\ UNCHANGED <<request, fetchIndex, fetched, backoffs, generated, chunks>>
    /\ UNCHANGED <<scoreVars, audioVars, saveVars, uiVars, gameVars>>

\* for await (const chunk of response): one chunk; the first inlineData ends the loop
ImageChunk ==
    /\ hpc = "stream"
    /\ Len(chunks) < MaxChunks
    /\ \E c \in Chunks :
        /\ chunks' = Append(chunks, c)
        /\ IF c.kind = "inlineData"
           THEN IF c.data # ""
                THEN Send(200, ImageBody(DataUrl(IF c.mimeType = "" THEN "image/png"
                                                  ELSE c.mimeType, c.data), Null))
                ELSE Send(200, Unavailable)
           ELSE UNCHANGED <<hpc, responses>>
    /\ UNCHANGED <<request, fetchIndex, fetched, backoffs, generated>>
    /\ UNCHANGED <<scoreVars, audioVars, saveVars, uiVars, gameVars>>

\* The stream ends without inlineData.
ImageStreamEnd ==
    /\ hpc = "stream"
    /\ Send(200, Unavailable)
    /\ UNCHANGED <<request, fetchIndex, fetched, backoffs, generated, chunks>>
    /\ UNCHANGED <<scoreVars, audioVars, saveVars, uiVars, gameVars>>

\* The import, the call or the stream throws: the inner catch answers.
ImageThrows ==
    /\ hpc = "stream"
    /\ generated' = Thrown
    /\ Send(200, Unavailable)
    /\ UNCHANGED <<request, fetchIndex, fetched, backoffs, chunks>>
    /\ UNCHANGED <<scoreVars, audioVars, saveVars, uiVars, gameVars>>

GeminiNext ==
    \/ AnalyzeReceive
    \/ GeminiFetch
    \/ GeminiBackoffDone
    \/ AnalyzeRespond
    \/ ImageReceive
    \/ ImageChunk
    \/ ImageStreamEnd
    \/ ImageThrows

GeminiSpec == GeminiInit /\ [][GeminiNext]_vars

\* Every continuation of a handler is resumed once what it awaits has settled.
GeminiFairSpec == GeminiSpec /\ WF_vars(GeminiNext)

\* What the last fetch of geminiGenerate met.
LastFetch == fetched[Len(fetched)]

\* What holds of a call of geminiGenerate at every point of it.
C22_GeminiGenerate ==
    request.handler = "analyze-personality" =>
        /\ Len(fetched) <= retries + 1
        /\ fetchIndex <= retries
        /\ \A k \in 1..(Len(fetched) - 1) :
              fetched[k].kind = "response" /\ fetched[k].status \in {429, 503}
        /\ Len(backoffs) <= 2
        /\ \A k \in 1..Len(backoffs) : backoffs[k] = IF k = 1 THEN 400 ELSE 800
        /\ hpc = "fetch" => Len(backoffs) = Len(fetched) /\ fetchIndex = Len(fetched)
        /\ hpc = "backoff" => Len(backoffs) = Len(fetched) /\ Len(fetched) <= retries
        /\ generated.kind # "pending" =>
              /\ Len(fetched) >= 1
              /\ Len(backoffs) = Len(fetched) - 1
              /\ generated.kind = "return" =>
                    /\ Ok(LastFetch)
                    /\ generated.value = LastFetch.json
                    /\ generated.value \in Payloads
              /\ (LastFetch.kind = "response" /\ ~Ok(LastFetch)) =>
                    /\ generated = Thrown
                    /\ LastFetch.status \in {429, 503} => Len(fetched) = retries + 1
        /\ (Len(fetched) >= 1 /\ hpc \in {"fetch", "backoff"}) =>
              LastFetch.status \in {429, 503}
        /\ (Len(fetched) >= 1 /\ LastFetch.kind = "response"
                /\ LastFetch.status \notin {429, 503}) => generated.kind # "pending"

\* C22: geminiGenerate (retries = 2) performs at most 3 fetches per call.
\* It returns the parsed JSON of the first OK response; it fetches again
\* only after a 429 or 503 and only while attempts remain, having waited
\* 400 ms and then 800 ms; it throws on any other non-OK status at once and
\* on a 429/503 at the third fetch; it never returns undefined. Every call
\* settles, by a return or a throw.
C22_Settles ==
    /\ []C22_GeminiGenerate
    /\ (hpc = "fetch") ~> (generated.kind \in {"return", "throw"})

\* Two rate-limited fetches, then an OK response whose JSON is returned.
C22_Witness ==
    /\ Len(fetched) = 3
    /\ fetched[1].status = 429
    /\ fetched[2].status = 503
    /\ backoffs = <<400, 800>>
    /\ generated.kind = "return"
    /\ Len(generated.value.parts) = 2

\* text.includes('**')
HasBoldMarker(s) == \E k \in 1..(Len(s) - 1) : s[k] = "*" /\ s[k + 1] = "*"

\* A POST to analyze-personality that carries the three messages.
FullAnalyzePost ==
    /\ request.handler = "analyze-personality"
    /\ request.method = "POST"
    /\ request.fields = Messages

\* No API key, or geminiGenerate threw (a rejected fetch, a status that is
\* not retried, a 429/503 at the last attempt, a body that does not parse).
GeminiFailed == ~request.apiKey \/ generated = Thrown

C23_FallbackAnswer ==
    FullAnalyzePost =>
        /\ Len(responses) <= 1
        /\ hpc = "done" <=> Len(responses) = 1
        /\ (hpc = "done" /\ GeminiFailed) =>
              /\ responses[1].status = 200
              /\ responses[1].body =
                    TextBody(IF request.impl = "dev" THEN fallbackText ELSE <<>>)
        /\ fallbackText # <<>>
        /\ \A k \in 1..Len(responses) :
              responses[k].status = 200 =>
                  /\ DOMAIN responses[k].body = {"text"}
                  /\ ~HasBoldMarker(responses[k].body.text)

\* C23: for a POST to analyze-personality carrying the three messages, a
\* missing API key or a Gemini failure that lasts through all retries gives
\* no error status: the handler sends exactly one response, 200 with a text
\* field (the non-empty fallback sample in the dev middleware, the empty
\* string in the serverless handler), and no text it returns contains '**'.
C23_AlwaysAnswers200 ==
    /\ []C23_FallbackAnswer
    /\ (FullAnalyzePost /\ hpc = "received") ~> (hpc = "done" /\ Len(responses) = 1)

\* The dev middleware after three rate-limited fetches.
C23_Witness ==
    /\ FullAnalyzePost
    /\ request.impl = "dev"
    /\ request.apiKey
    /\ Len(fetched) = 3
    /\ generated = Thrown
    /\ responses = <<Response(200, TextBody(fallbackText))>>

ImageRequest == request.handler = "generate-image"

\* The handler took from the stream a chunk whose first part is an image.
ImageChunkReceived ==
    /\ chunks # <<>>
    /\ chunks[Len(chunks)].kind = "inlineData"
    /\ chunks[Len(chunks)].data # ""

\* generateContentStream was called.
UpstreamCalled == hpc = "stream" \/ chunks # <<>> \/ generated # [kind |-> "pending"]

C24_ResponseShape ==
    ImageRequest =>
        /\ Len(responses) <= 1
        /\ hpc = "done" <=> Len(responses) = 1
        /\ hpc = "done" =>
            LET res == responses[1] IN
              /\ request.method \notin {"POST", "OPTIONS"} <=> res.status = 405
              /\ request.method = "OPTIONS" => res.status = 200
              /\ (request.method = "POST" /\ "prompt" \notin request.fields) <=> res.status = 400
              /\ res.status \in {200, 400, 405}
              /\ (request.method = "POST" /\ res.status = 200) =>
                    /\ DOMAIN res.body = {"url", "error"}
                    /\ (res.body.url = Null) # (res.body.error = Null)
                    /\ IF ImageChunkReceived
                       THEN /\ res.body.url # Null
                            /\ res.body.url.scheme = "data"
                            /\ res.body.url.base64 = chunks[Len(chunks)].data
                            /\ res.body.error = Null
                       ELSE res.body = ImageBody(Null, JsString("image_generation_unavailable"))
        /\ (request.method # "POST" \/ "prompt" \notin request.fields \/ ~request.apiKey)
              => ~UpstreamCalled

\* C24: every request to the generate-image handler gets exactly one
\* response. A 200 response to a POST has exactly one of url and error
\* non-null: a data URL and error null when an image chunk was received,
\* otherwise url null and error 'image_generation_unavailable' (no API key,
\* no image in the stream, upstream exception). A POST without a prompt gets
\* 400 and makes no upstream call; a request neither POST nor OPTIONS gets 405.
C24_OneResponse ==
    /\ []C24_ResponseShape
    /\ (ImageRequest /\ hpc = "received") ~> (hpc = "done" /\ Len(responses) = 1)

\* A chunk without parts, then an image chunk that names no mimeType.
C24_Witness ==
    /\ ImageRequest
    /\ Len(chunks) = 2
    /\ chunks[1].kind = "noParts"
    /\ ImageChunkReceived
    /\ responses = <<Response(200, ImageBody(DataUrl("image/png", "iVBOR"), Null))>>

(***************************************************************************)
(* The questionnaire page (main.ts): the submit handler of the form, the   *)
(* progress modal of createProgress and the report of renderReport.        *)
(* Time is performance.now() in ms; frames and the fetch fall on a 50 ms   *)
(* grid, on which the doubles of tick are exact or far from a rounding tie.*)
(***************************************************************************)
Max(a, b) == IF a >= b THEN a ELSE b

Min(a, b) == IF a <= b THEN a ELSE b

\* How long a frame lasts (ms).
FrameMs == {100, 200}

\* animateTo(target, duration) called at `now` with current = cur: start, begin, end;
\* `if (end === begin) return resolve()`
NewAnimation(cur, target, duration) ==
    LET end == Max(cur, Min(target, 100))
    IN  [start |-> now, begin |-> cur, end |-> end, duration |-> duration,
         resolved |-> end = cur]

\* tick(t): p = min(1, (t - start) / duration), eased = 1 - (1 - p)^3,
\* Math.round(begin + (end - begin) * eased), in units of 50 ms
tickValue(a, t) ==
    LET d == a.duration \div 50
        e == Min(d, (t - a.start) \div 50)
        d3 == d * d * d
        r3 == (d - e) * (d - e) * (d - e)
    IN  (2 * a.begin * d3 + 2 * (a.end - a.begin) * (d3 - r3) + d3) \div (2 * d3)

\* text.trim(): "\n" is the only whitespace among the tokens
RECURSIVE TrimStart(_)
TrimStart(s) == IF s # <<>> /\ s[1] = "\n" THEN TrimStart(Tail(s)) ELSE s

RECURSIVE TrimEnd(_)
TrimEnd(s) ==
    IF s # <<>> /\ s[Len(s)] = "\n" THEN TrimEnd(SubSeq(s, 1, Len(s) - 1)) ELSE s

Trim(s) == TrimEnd(TrimStart(s))

\* text.split('\n')
RECURSIVE Split(_, _)
Split(s, line) ==
    IF s = <<>> THEN <<line>>
    ELSE IF s[1] = "\n" THEN <<line>> \o Split(Tail(s), <<>>)
    ELSE Split(Tail(s), Append(line, s[1]))

\* line.match(/^\*\*([^*]+)\*\*:?\s*$/): where the captured group ends, 0 without a match
HeaderEnd(line) ==
    LET k == IF line # <<>> /\ line[Len(line)] = ":" THEN Len(line) - 3 ELSE Len(line) - 2
    IN  IF /\ k >= 3
           /\ line[1] = "*" /\ line[2] = "*"
           /\ \A j \in 3..k : line[j] # "*"
           /\ line[k + 1] = "*" /\ line[k + 2] = "*"
        THEN k ELSE 0

\* header.includes(word), on tokens
Includes(header, word) ==
    \E k \in 1..Len(header) :
        \/ header[k] = word
        \/ word = "Blind Spots" /\ header[k] = "Potential Blind Spots"

\* appendSection: isLockedSection
isLockedSection(header, content, locked) ==
    locked /\ (Includes(header, "Strengths") \/ Includes(header, "Blind Spots"))

\* appendSection(container, header, content, locked): the div appended; locked
\* stands for the class locked-section, the blur-overlay and the unlock-prompt
appendSection(header, content, locked) ==
    [header |-> header, content |-> content,
     locked |-> isLockedSection(header, content, locked)]

\* renderReport: lines.forEach and 'Append last section'
RECURSIVE renderLines(_, _, _, _, _)
renderLines(lines, currentSection, currentContent, out, locked) ==
    IF lines = <<>>
    THEN IF Len(currentContent) > 0
         THEN Append(out, appendSection(currentSection, currentContent, locked))
         ELSE out
    ELSE LET line == lines[1]
             k == HeaderEnd(line)
         IN  IF k > 0
             THEN renderLines(Tail(lines), SubSeq(line, 3, k), <<>>,
                      IF Len(currentContent) > 0
                      THEN Append(out, appendSection(currentSection, currentContent, locked))
                      ELSE out,
                      locked)
             ELSE renderLines(Tail(lines), currentSection, Append(currentContent, line),
                      out, locked)

renderReport(text, locked) == renderLines(Split(text, <<>>), <<>>, <<>>, <<>>, locked)

\* The texts /api/analyze-personality delivers (either implementation).
DeliveredTexts ==
    { RemoveBoldMarkers(JoinTexts(ps)) : ps \in PartLists } \cup {fallbackText, <<>>}

\* How the analysis request settles, and whether drawing the charts throws.
TextRequests ==
    { [kind |-> "rejected", text |-> <<>>, chartsThrow |-> FALSE] }
        \cup { [kind |-> "resolved", text |-> t, chartsThrow |-> b] :
                 t \in DeliveredTexts, b \in BOOLEAN }

\* How often the generator button is clicked at most.
MaxGenerateSets == 2

UiInit ==
    /\ submitBtnDisabled = FALSE
    /\ modalHidden = TRUE
    /\ upc = "idle"
    /\ timerAt = 0
    /\ textReq \in TextRequests
    /\ now = 0
    /\ current = 0
    /\ animations = <<>>
    /\ rafPending = <<>>
    /\ rafRunning = <<>>
    /\ sections = <<>>
    /\ genSetRuns = 0
    /\ ScoreIdle /\ AudioIdle /\ SaveIdle /\ GeminiIdle /\ GameIdle

\* Mutant of close: the modal keeps its state.
closeNothing == modalHidden

\* close(): modal.setAttribute('hidden', '')
close == TRUE

\* catch (err): await progress.animateTo(100, 300); progress.close(); alert(...),
\* entered with the modal hidden or not
Catch(hidden) ==
    LET a == NewAnimation(current, 100, 300)
    IN  /\ animations' = Append(animations, a)
        /\ IF a.resolved
           THEN /\ modalHidden' = close
                /\ upc' = "alert"
                /\ UNCHANGED rafPending
           ELSE /\ modalHidden' = hidden
                /\ rafPending' = Append(rafPending, Len(animations) + 1)
                /\ upc' = "catchAnimation"

\* The submit listener up to `await textReq`.
Submit ==
    /\ upc = "idle"
    /\ submitBtnDisabled' = TRUE
    /\ modalHidden' = FALSE
    /\ current' = 0
    /\ animations' = <<NewAnimation(0, 30, 600), NewAnimation(0, 70, 800)>>
    /\ rafPending' = <<1, 2>>
    /\ upc' = "awaitText"
    /\ UNCHANGED <<timerAt, textReq, now, rafRunning, sections, genSetRuns>>
    /\ UNCHANGED <<scoreVars, audioVars, saveVars, geminiVars, gameVars>>

\* The browser starts a frame: the callbacks requested so far will be called.
BeginFrame ==
    /\ rafRunning = <<>>
    /\ rafPending # <<>> \/ (upc = "awaitTimer" /\ now < timerAt)
    /\ \E f \in FrameMs : now' = now + f
    /\ rafRunning' = rafPending
    /\ rafPending' = <<>>
    /\ UNCHANGED <<submitBtnDisabled, modalHidden, upc, timerAt, textReq, current,
                   animations, sections, genSetRuns>>
    /\ UNCHANGED <<scoreVars, audioVars, saveVars, geminiVars, gameVars>>

\* One tick callback, and the continuation of the handler if it awaits this animation.
Tick ==
    /\ rafRunning # <<>>
    /\ LET id == Head(rafRunning)
           a == animations[id]
           c == tickValue(a, now)
           awaited == id = Len(animations) /\ upc \in {"awaitAnimation", "catchAnimation"}
       IN  /\ current' = c
           /\ rafRunning' = Tail(rafRunning)
           /\ IF c >= a.end
              THEN /\ animations' = [animations EXCEPT ![id].resolved = TRUE]
                   /\ UNCHANGED rafPending
                   /\ IF awaited /\ upc = "awaitAnimation"
                      THEN /\ timerAt' = now + 150
                           /\ upc' = "awaitTimer"
                           /\ UNCHANGED modalHidden
                      ELSE IF awaited
                      THEN /\ modalHidden' = close
                           /\ upc' = "alert"
                           /\ UNCHANGED timerAt
                      ELSE UNCHANGED <<modalHidden, upc, timerAt>>
              ELSE /\ rafPending' = Append(rafPending, id)
                   /\ UNCHANGED <<animations, modalHidden, upc, timerAt>>
    /\ UNCHANGED <<submitBtnDisabled, textReq, now, sections, genSetRuns>>
    /\ UNCHANGED <<scoreVars, audioVars, saveVars, geminiVars, gameVars>>

\* textReq settles: the handler goes on after `await textReq`, or to catch.
TextSettles ==
    /\ upc = "awaitText"
    /\ rafRunning = <<>>
    /\ IF textReq.kind = "resolved"
       THEN LET a == NewAnimation(current, 100, 200)
            IN  /\ animations' = Append(animations, a)
                /\ UNCHANGED modalHidden
                /\ IF a.resolved
                   THEN /\ timerAt' = now + 150
                        /\ upc' = "awaitTimer"
                        /\ UNCHANGED rafPending
                   ELSE /\ rafPending' = Append(rafPending, Len(animations) + 1)
                        /\ upc' = "awaitAnimation"
                        /\ UNCHANGED timerAt
       ELSE /\ Catch(modalHidden)
            /\ UNCHANGED timerAt
    /\ UNCHANGED <<submitBtnDisabled, textReq, now, current, rafRunning, sections, genSetRuns>>
    /\ UNCHANGED <<scoreVars, audioVars, saveVars, geminiVars, gameVars>>

\* The 150 ms timer: close, the charts, renderReport, the fantasy controls, finally.
TimerFires ==
    /\ upc = "awaitTimer"
    /\ rafRunning = <<>>
    /\ now >= timerAt
    /\ IF textReq.chartsThrow
       THEN /\ Catch(close)
            /\ UNCHANGED <<submitBtnDisabled, sections>>
       ELSE /\ modalHidden' = close
            /\ sections' = renderReport(Trim(textReq.text), TRUE)
            /\ submitBtnDisabled' = FALSE
            /\ upc' = "done"
            /\ UNCHANGED <<animations, rafPending>>
    /\ UNCHANGED <<timerAt, textReq, now, current, rafRunning, genSetRuns>>
    /\ UNCHANGED <<scoreVars, audioVars, saveVars, geminiVars, gameVars>>

\* The user closes the alert: finally.
AlertClosed ==
    /\ upc = "alert"
    /\ rafRunning = <<>>
    /\ submitBtnDisabled' = FALSE
    /\ upc' = "failed"
    /\ UNCHANGED <<modalHidden, timerAt, textReq, now, current, animations, rafPending,
                   rafRunning, sections, genSetRuns>>
    /\ UNCHANGED <<scoreVars, audioVars, saveVars, geminiVars, gameVars>>

\* generateSet, the click handler of #genSetBtn, as far as the report goes:
\* every .locked-section loses its class, its blur and its prompt.
GenerateSet ==
    /\ upc = "done"
    /\ rafRunning = <<>>
    /\ genSetRuns < MaxGenerateSets
    /\ genSetRuns' = genSetRuns + 1
    /\ sections' = [k \in DOMAIN sections |-> [sections[k] EXCEPT !.locked = FALSE]]
    /\ UNCHANGED <<submitBtnDisabled, modalHidden, upc, timerAt, textReq, now, current,
                   animations, rafPending, rafRunning>>
    /\ UNCHANGED <<scoreVars, audioVars, saveVars, geminiVars, gameVars>>

UiNext ==
    \/ Submit
    \/ BeginFrame
    \/ Tick
    \/ TextSettles
    \/ TimerFires
    \/ AlertClosed
    \/ GenerateSet

UiSpec == UiInit /\ [][UiNext]_vars

\* Frames keep coming, the request settles, timers fire and the alert is closed.
UiFairSpec == UiSpec /\ WF_vars(UiNext)

\* The submit handler is under way, from its first statement to its finally.
Handling == upc \notin {"idle", "done", "failed"}

C25_ButtonAndModal ==
    /\ Handling => submitBtnDisabled
    /\ upc = "awaitText" => ~modalHidden
    /\ upc \in {"done", "failed"} => ~submitBtnDisabled /\ modalHidden
    /\ upc = "failed" => textReq.kind = "rejected" \/ textReq.chartsThrow
    /\ upc = "done" => textReq.kind = "resolved" /\ ~textReq.chartsThrow

\* C25: for every submission whose analysis request settles (resolves or
\* rejects), the submit button is disabled from the start of the handler and
\* enabled again when the handler finishes, and the progress modal that was
\* opened is closed again, on the success path and on the error path alike.
C25_Restored ==
    /\ []C25_ButtonAndModal
    /\ (upc = "awaitText" /\ submitBtnDisabled /\ ~modalHidden)
          ~> (upc \in {"done", "failed"} /\ ~submitBtnDisabled /\ modalHidden)

\* The error path: the request was rejected, the alert shown and closed.
C25_Witness ==
    /\ upc = "failed"
    /\ textReq.kind = "rejected"
    /\ Len(animations) = 3
    /\ animations[3].resolved
    /\ ~submitBtnDisabled
    /\ modalHidden

\* C26: during a submission the progress value (current of createProgress,
\* shown in the bar and in the percent label) never decreases and stays
\* within 0..100, although the handler starts animateTo(30), animateTo(70)
\* and animateTo(100) without waiting for the earlier ones, so that their
\* frame callbacks interleave.
C26_ProgressMonotone ==
    /\ [](current \in 0..100)
    /\ [][current' >= current]_vars

\* The part of C26 that does hold: the value stays within 0..100.
C26_InRange == current \in 0..100

\* The line without its bold markers.
Unmarked(line) == SelectSeq(line, LAMBDA tok : tok # "*")

\* The report text has a section of this name: a line that is its heading,
\* with or without bold markers and colon.
HasSection(text, name) ==
    LET lines == Split(text, <<>>)
    IN  \E k \in 1..Len(lines) : Unmarked(lines[k]) \in {<<name>>, <<name, ":">>}

\* The section of this name is on the page, and locked: some div shows its
\* heading (as its header or within its content) with the class locked-section.
ShownLocked(name) ==
    \E k \in 1..Len(sections) :
        /\ sections[k].locked
        /\ \/ sections[k].header = <<name>>
           \/ \E j \in 1..Len(sections[k].content) :
                 Unmarked(sections[k].content[j]) \in {<<name>>, <<name, ":">>}

LockedNames == {"Strengths", "Potential Blind Spots"}

\* C27: for every report text delivered by the analyze-personality endpoint
\* that has a Strengths or a Potential Blind Spots section, renderReport
\* renders that section as locked (class locked-section, blurred content,
\* prompt 'Generate your Fantasy Set to unlock'), and it stays locked until
\* the user runs generateSet, which unlocks it.
C27_LockedUntilGenerated ==
    \A name \in LockedNames :
        (upc = "done" /\ HasSection(Trim(textReq.text), name)) =>
            (ShownLocked(name) <=> genSetRuns = 0)

(***************************************************************************)
(* The minigame (game.js). Positions are canvas pixels. canvas.height *    *)
(* 0.66 and * 0.33 are taken as 396 and 198: the doubles differ from them  *)
(* by less than 1e-12, and every comparison they enter has a margin of 5.  *)
(* The keys object is written by the key listeners and read nowhere; it    *)
(* and the keyup listener are left out.                                    *)
(***************************************************************************)
CANVAS_WIDTH == 800

CANVAS_HEIGHT == 600

PLATFORM_HEIGHT == 20

PLAYER_WIDTH == 30

PLAYER_HEIGHT == 50

BULLET_SIZE == 10

BULLET_SPEED == 5

PLAYER_X == 100

\* platforms[i].y, bottom, middle, top
platforms == [i \in 0..2 |->
    IF i = 0 THEN CANVAS_HEIGHT - PLATFORM_HEIGHT
    ELSE IF i = 1 THEN (CANVAS_HEIGHT * 66) \div 100
    ELSE (CANVAS_HEIGHT * 33) \div 100]

\* The player as resetGame and the initial object have it.
PlayerAtBottom ==
    [y |-> CANVAS_HEIGHT - PLATFORM_HEIGHT - PLAYER_HEIGHT, currentPlatform |-> 0]

\* How many bullets the spawn timer produces at most.
MaxBullets == 2

\* checkCollision(bullet)
checkCollision(pl, bullet) ==
    /\ PLAYER_X < bullet.x + bullet.size
    /\ PLAYER_X + PLAYER_WIDTH > bullet.x
    /\ pl.y < bullet.y + bullet.size
    /\ pl.y + PLAYER_HEIGHT > bullet.y

\* Mutant of Passes: a bullet is counted whenever it is left of the player.
PassesAgain(bullet) == bullet.x < PLAYER_X

\* !bullet.passed && bullet.x < player.x && !dodgedBullets.has(bullet.id), after the move
Passes(bullet) ==
    ~bullet.passed /\ bullet.x < PLAYER_X /\ bullet.id \notin dodgedBullets

\* isClickInButton(x, y)
isClickInButton(x, y) ==
    LET buttonX == CANVAS_WIDTH \div 2 - 50
        buttonY == CANVAS_HEIGHT \div 2 + 60
    IN  x >= buttonX /\ x <= buttonX + 100 /\ y >= buttonY /\ y <= buttonY + 40

\* Where the user clicks on the canvas.
Clicks == { <<400, 380>>, <<350, 360>>, <<450, 400>>, <<349, 380>>, <<400, 401>>, <<0, 0>> }

GameInit ==
    /\ score = 0
    /\ gameOver = FALSE
    /\ dodgedBullets = {}
    /\ player = PlayerAtBottom
    /\ bullets = <<>>
    /\ bulletId = 0
    /\ crossed = {}
    /\ collided = {}
    /\ ScoreIdle /\ AudioIdle /\ SaveIdle /\ GeminiIdle /\ UiIdle

\* moveUp()
moveUp ==
    IF player.currentPlatform < 2
    THEN [y |-> platforms[player.currentPlatform + 1] - PLAYER_HEIGHT,
          currentPlatform |-> player.currentPlatform + 1]
    ELSE player

\* moveDown()
moveDown ==
    IF player.currentPlatform > 0
    THEN [y |-> platforms[player.currentPlatform - 1] - PLAYER_HEIGHT,
          currentPlatform |-> player.currentPlatform - 1]
    ELSE player

\* The keydown listener.
KeyDown ==
    /\ \E code \in {"ArrowUp", "ArrowDown", "Space"} :
          player' = IF gameOver THEN player
                    ELSE IF code = "ArrowUp" THEN moveUp
                    ELSE IF code = "ArrowDown" THEN moveDown
                    ELSE player
    /\ UNCHANGED <<score, gameOver, dodgedBullets, bullets, bulletId, crossed, collided>>
    /\ UNCHANGED <<scoreVars, audioVars, saveVars, geminiVars, uiVars>>

\* spawnBullet(), called by setInterval every 2000 ms
SpawnBullet ==
    /\ bulletId < MaxBullets
    /\ \E platformIndex \in 0..2 :
          bullets' = Append(bullets,
              [id |-> bulletId, x |-> CANVAS_WIDTH,
               y |-> platforms[platformIndex] - BULLET_SIZE \div 2,
               size |-> BULLET_SIZE, passed |-> FALSE])
    /\ bulletId' = bulletId + 1
    /\ UNCHANGED <<score, gameOver, dodgedBullets, player, crossed, collided>>
    /\ UNCHANGED <<scoreVars, audioVars, saveVars, geminiVars, uiVars>>

\* update(), called by gameLoop on every animation frame
Update ==
    /\ ~gameOver
    /\ LET moved == [k \in 1..Len(bullets) |->
                        [bullets[k] EXCEPT !.x = bullets[k].x - BULLET_SPEED]]
           counted == { k \in 1..Len(bullets) : Passes(moved[k]) }
           hit == { k \in 1..Len(bullets) : checkCollision(player, moved[k]) }
           after == [k \in 1..Len(bullets) |->
                        IF k \in counted THEN [moved[k] EXCEPT !.passed = TRUE] ELSE moved[k]]
       IN  /\ bullets' = SelectSeq(after, LAMBDA b : b.x + b.size > 0)
           /\ dodgedBullets' = dodgedBullets \cup { moved[k].id : k \in counted }
           /\ score' = score + Cardinality(counted)
           /\ gameOver' = (hit # {})
           /\ crossed' = crossed \cup { moved[k].id : k \in { j \in 1..Len(bullets) :
                                                               moved[j].x < PLAYER_X } }
           /\ collided' = collided \cup { moved[k].id : k \in hit }
    /\ UNCHANGED <<player, bulletId>>
    /\ UNCHANGED <<scoreVars, audioVars, saveVars, geminiVars, uiVars>>

\* update() while the game is over: `if (gameOver) return`
UpdateGameOver ==
    /\ gameOver
    /\ UNCHANGED gameVars
    /\ UNCHANGED <<scoreVars, audioVars, saveVars, geminiVars, uiVars>>

\* resetGame()
resetGame ==
    /\ score' = 0
    /\ gameOver' = FALSE
    /\ bullets' = <<>>
    /\ dodgedBullets' = {}
    /\ player' = PlayerAtBottom

\* The click listener of the canvas.
Click ==
    /\ \E c \in Clicks :
          IF gameOver /\ isClickInButton(c[1], c[2])
          THEN /\ resetGame
               /\ crossed' = {}
               /\ collided' = {}
          ELSE UNCHANGED <<score, gameOver, bullets, dodgedBullets, player, crossed, collided>>
    /\ UNCHANGED bulletId
    /\ UNCHANGED <<scoreVars, audioVars, saveVars, geminiVars, uiVars>>

GameNext ==
    \/ KeyDown
    \/ SpawnBullet
    \/ Update
    \/ UpdateGameOver
    \/ Click

GameSpec == GameInit /\ [][GameNext]_vars

\* C28: between two resets each bullet increments the score at most once:
\* after any sequence of frame updates, key presses and bullet spawns the
\* score equals the number of distinct bullets spawned since the last reset
\* whose x position has dropped below the player's x during an update.
C28_ScoreCountsCrossed ==
    /\ score = Cardinality(crossed)
    /\ dodgedBullets = crossed
    /\ \A k \in 1..Len(bullets) :
          /\ bullets[k].passed <=> bullets[k].id \in dodgedBullets
          /\ \A j \in 1..Len(bullets) : bullets[j].id = bullets[k].id => j = k

\* A bullet counted after a reset: bullet 0 ended the first game, bullet 1
\* was spawned in the second one and went past the player.
C28_Witness ==
    /\ score = 1
    /\ dodgedBullets = {1}
    /\ ~gameOver
    /\ Len(bullets) = 1
    /\ bullets[1].passed
    /\ bullets[1].x < PLAYER_X - BULLET_SPEED

\* C29: the score counts only bullets the player actually dodged: a bullet
\* that has been counted toward the score never collides with the player,
\* neither in the update that counts it nor in any later update, for every
\* interleaving of frame updates with ArrowUp/ArrowDown platform changes.
C29_CountedNeverHits == dodgedBullets \cap collided = {}

\* C30: once gameOver is true the game state is frozen until resetGame runs:
\* frame updates, key presses and the bullet spawn timer leave the score,
\* the player's platform and position and the list of bullets unchanged;
\* only a click inside the restart button leaves the game-over state, and it
\* restores score 0, no bullets and the player on the bottom platform.
C30_FrozenWhenOver ==
    [][gameOver =>
          IF gameOver'
          THEN UNCHANGED <<score, player, bullets>>
          ELSE /\ \E c \in Clicks : isClickInButton(c[1], c[2])
               /\ score' = 0
               /\ bullets' = <<>>
               /\ player' = PlayerAtBottom]_vars

\* The part of C30 that does hold: while the game is over the score and the
\* player stay as they are, and leaving that state is a reset.
C30_ScoreAndPlayerFrozen ==
    [][gameOver =>
          IF gameOver'
          THEN UNCHANGED <<score, player, dodgedBullets>>
          ELSE score' = 0 /\ bullets' = <<>> /\ player' = PlayerAtBottom]_vars

====
